---- MODULE Spec2Model ----
(***************************************************************************)
(* Model of the open-actuator protocol client (USBInterface, interface.py) *)
(* and of the device-state facade ACBv2 (actuators/ACBv2.py).              *)
(*                                                                         *)
(* Numbers.  A Python float is modelled exactly as an integer count of     *)
(* 1/Unit, Unit = 125 * 256 = 32000, so that the decimal clamp bound       *)
(* 127.996 and every Q8.8 value k/256 are both integers.                   *)
(*                                                                         *)
(* Text.  A reply line, after .decode().strip(), is a sequence of tokens   *)
(* separated by single blanks.  A token is a word, a decimal integer       *)
(* literal ("4") or a decimal literal with a fraction ("42.0").            *)
(***************************************************************************)
EXTENDS Integers, Sequences, FiniteSets, TLC

VARIABLES
    connected,      \* USBInterface.connected
    serial_conn,    \* USBInterface.serial_conn: "None", "open" or "closed"
    unclosed,       \* serial.Serial objects the interface opened, dropped and never closed
    command_mode,   \* USBInterface.command_mode
    cache,          \* the ACBv2 cached fields (_position, _velocity, ...)
    lastOp,         \* the public operation that returned last, with its I/O
    codec,          \* a value taken through _float_to_q88 and _q88_to_float
    gui,            \* the ActuatorGUI fields the threads are steered by
    pc,             \* where the GUI main thread and each polling thread is
    stream          \* the lines the board sent and the exchange that reads them

vars == <<connected, serial_conn, unclosed, command_mode, cache, lastOp, codec, gui, pc, stream>>

---------------------------------------------------------------------------
(* Bounds of the model *)

\* Cached fields of one ACBv2 object that are populated (not None) at once.
MaxPopulated == 1

\* serial.Serial objects of one interface that are open and no longer
\* referenced by it.
MaxUnclosed == 1

\* Threads running the same background loop (monitor_loop, plot_loop) that
\* are alive at once.
MaxLoops == 2

---------------------------------------------------------------------------
(* Enumerations of interface.py *)

SET_POSITION == 1
SET_VELOCITY == 2
SET_TORQUE == 3
GET_POSITION == 4
GET_VELOCITY == 5
GET_TORQUE == 6
ENABLE == 7
DISABLE == 8
HOME == 9
STOP == 10
RESET_POSITION == 11
GET_CURRENT_A == 12
GET_CURRENT_B == 13
GET_CURRENT_C == 14
CMD_MODE == 171
BROADCAST == 172

HUMAN_READABLE == 1
HIGH_SPEED_BINARY == 2
SIMPLEFOC == 3

CommandMode == {HUMAN_READABLE, HIGH_SPEED_BINARY, SIMPLEFOC}

---------------------------------------------------------------------------
(* Python values *)

Unit == 125 * 256

\* A returned or cached Python value.  k is the kind; n the number (floats in
\* 1/Unit, ints and bools as integers, a float32 as its bit pattern); t the
\* elements of a tuple or dict; exc the class of an escaping exception.
Val(k, n, t, exc) == [k |-> k, n |-> n, t |-> t, exc |-> exc]
None == Val("None", 0, <<>>, "")
PyFloat(n) == Val("float", n, <<>>, "")
PyInt(n) == Val("int", n, <<>>, "")
PyBool(b) == Val("bool", IF b THEN 1 ELSE 0, <<>>, "")
PyTuple(t) == Val("tuple", 0, t, "")
PyDict(t) == Val("dict", 0, t, "")
PyFloat32(bits) == Val("float32", bits, <<>>, "")
Raise(exc) == Val("raise", 0, <<>>, exc)

True == PyBool(TRUE)
False == PyBool(FALSE)

\* Tokens of a text line.
Word(s) == [k |-> "word", s |-> s, n |-> 0]
IntLit(i) == [k |-> "int", s |-> "", n |-> i * Unit]
FloatLit(n) == [k |-> "float", s |-> "", n |-> n]

\* str(x) inside an f-string: a float prints with a fraction, an int without.
Fmt(v) == IF v.k = "int" THEN IntLit(v.n) ELSE FloatLit(v.n)

\* float(s) and int(s) on the text s (a sequence of tokens): both raise
\* ValueError unless s is one literal; int() also rejects a fraction.
FloatParses(s) == Len(s) = 1 /\ s[1].k \in {"int", "float"}
IntParses(s) == Len(s) = 1 /\ s[1].k = "int"
ParseFloat(s) == PyFloat(s[1].n)
ParseInt(s) == PyInt(s[1].n \div Unit)

\* response.startswith(name + " ") on a stripped line.
StartsWith(line, name) == Len(line) >= 2 /\ line[1] = Word(name)
\* response.split(" ", 1)[1]
AfterFirst(line) == SubSeq(line, 2, Len(line))

---------------------------------------------------------------------------
(* Fixed-point codec *)

Trunc(a, b) == IF a >= 0 THEN a \div b ELSE -((-a) \div b)
Max(a, b) == IF a >= b THEN a ELSE b
Min(a, b) == IF a <= b THEN a ELSE b

\* 127.996 in 1/Unit
ClampHi == 127996 * 32
ClampLo == -128 * Unit

\* _float_to_q88 with round() in the place of int(): nearest, not toward zero.
float_to_q88_Rounds(value) ==
    LET x == Max(ClampLo, Min(ClampHi, value)) * 256
    IN  Trunc(2 * x + (IF x >= 0 THEN Unit ELSE -Unit), 2 * Unit) % 65536

\* _float_to_q88: int(max(-128.0, min(127.996, value)) * 256) & 0xFFFF
float_to_q88(value) == Trunc(Max(ClampLo, Min(ClampHi, value)) * 256, Unit) % 65536

\* _q88_to_float without the `if value & 0x8000` adjustment.
q88_to_float_Unsigned(value) == value * (Unit \div 256)

\* _q88_to_float: value - 0x10000 if value & 0x8000, then / 256.0
q88_to_float(value) ==
    LET v == IF (value \div 32768) % 2 = 1 THEN value - 65536 ELSE value
    IN  v * (Unit \div 256)

\* struct.pack('>h', x): two big-endian bytes; struct.error outside int16.
PackableH(x) == -32768 <= x /\ x <= 32767
pack_h(x) == << (x % 65536) \div 256, x % 256 >>
\* struct.unpack('>h', b[:2])[0]
unpack_h(b) ==
    LET w == b[1] * 256 + b[2] IN IF w >= 32768 THEN w - 65536 ELSE w
\* struct.unpack('>f', b[:4])[0]: the float32 whose bits are the four bytes.
unpack_f(b) == PyFloat32(((b[1] * 256 + b[2]) * 256 + b[3]) * 256 + b[4])

---------------------------------------------------------------------------
(* Transport: one request/response exchange on the serial connection *)

\* What the serial port does during one exchange: fault is the call that
\* raises ("write", "read": serial.SerialException; "decode": the bytes read
\* are not UTF-8), line the text line the board left to read (<<>>: nothing
\* before the timeout), bytes the raw bytes it left to read.
Io(fault, line, bytes) == [fault |-> fault, line |-> line, bytes |-> bytes]

\* The interface object.
Self == [connected |-> connected, serial_conn |-> serial_conn,
         command_mode |-> command_mode]

TextPacket(line) == [fmt |-> "text", line |-> line, bytes |-> <<>>]
BinPacket(bytes) == [fmt |-> "bin", line |-> <<>>, bytes |-> bytes]
ReadLine == [call |-> "readline", n |-> 0]
Read(n) == [call |-> "read", n |-> n]

\* The outcome of a send: the response (none: Python None) and the write
\* and read calls made on the port.
Sent(none, line, bytes, writes, reads) ==
    [none |-> none, line |-> line, bytes |-> bytes,
     writes |-> writes, reads |-> reads]
NotSent == Sent(TRUE, <<>>, <<>>, <<>>, <<>>)

\* `if response`
Truthy(x) == ~x.none /\ (x.line # <<>> \/ x.bytes # <<>>)

\* _send_human_command that sends the command once more when the first
\* readline() timed out.
send_human_command_Retries(self, command, io) ==
    IF ~self.connected \/ self.serial_conn = "None" THEN NotSent
    ELSE IF io.fault = "write"
         THEN Sent(TRUE, <<>>, <<>>, <<TextPacket(command)>>, <<>>)
    ELSE IF io.fault \in {"read", "decode"}
         THEN Sent(TRUE, <<>>, <<>>, <<TextPacket(command)>>, <<ReadLine>>)
    ELSE IF io.line = <<>>
         THEN Sent(FALSE, <<>>, <<>>, <<TextPacket(command), TextPacket(command)>>,
                   <<ReadLine, ReadLine>>)
    ELSE Sent(FALSE, io.line, <<>>, <<TextPacket(command)>>, <<ReadLine>>)

\* _send_human_command(command)
send_human_command(self, command, io) ==
    IF ~self.connected \/ self.serial_conn = "None" THEN NotSent
    ELSE IF io.fault = "write"
         THEN Sent(TRUE, <<>>, <<>>, <<TextPacket(command)>>, <<>>)
    ELSE IF io.fault \in {"read", "decode"}
         THEN Sent(TRUE, <<>>, <<>>, <<TextPacket(command)>>, <<ReadLine>>)
    ELSE Sent(FALSE, io.line, <<>>, <<TextPacket(command)>>, <<ReadLine>>)

\* serial_conn.read(1): at most one of the bytes waiting
ReadBytes(bytes, n) == SubSeq(bytes, 1, Min(n, Len(bytes)))

\* _send_binary_command(command_id, data)
send_binary_command(self, command_id, data, io) ==
    LET packet == BinPacket(<<command_id>> \o data) IN
    IF ~self.connected \/ self.serial_conn = "None" THEN NotSent
    ELSE IF io.fault = "write"
         THEN Sent(TRUE, <<>>, <<>>, <<packet>>, <<>>)
    ELSE IF io.fault = "read"
         THEN Sent(TRUE, <<>>, <<>>, <<packet>>, <<Read(1)>>)
    ELSE Sent(FALSE, <<>>, ReadBytes(io.bytes, 1), <<packet>>, <<Read(1)>>)

\* What a public operation did: its return value (or escaping exception),
\* the port calls it made, and command_mode when it returns.
Out(result, x, mode) ==
    [result |-> result, writes |-> x.writes, reads |-> x.reads, mode |-> mode]

---------------------------------------------------------------------------
(* USBInterface public operations *)

\* GetQ88 without the `else: return float(response)` of the bare form.
GetQ88_PrefixedOnly(self, name, command_id, io) ==
    IF self.command_mode = HUMAN_READABLE
    THEN LET x == send_human_command(self, <<Word(name)>>, io) IN
         IF Truthy(x) /\ StartsWith(x.line, name) /\ FloatParses(AfterFirst(x.line))
         THEN Out(ParseFloat(AfterFirst(x.line)), x, self.command_mode)
         ELSE Out(None, x, self.command_mode)
    ELSE LET x == send_binary_command(self, command_id, <<>>, io) IN
         IF Truthy(x) /\ Len(x.bytes) >= 2
         THEN Out(PyFloat(q88_to_float(unpack_h(x.bytes))), x, self.command_mode)
         ELSE Out(None, x, self.command_mode)

\* The shape shared by get_position, get_velocity and get_torque.
GetQ88(self, name, command_id, io) ==
    IF self.command_mode = HUMAN_READABLE
    THEN LET x == send_human_command(self, <<Word(name)>>, io) IN
         IF Truthy(x)
         THEN IF StartsWith(x.line, name)
              THEN IF FloatParses(AfterFirst(x.line))
                   THEN Out(ParseFloat(AfterFirst(x.line)), x, self.command_mode)
                   ELSE Out(None, x, self.command_mode)
              ELSE IF FloatParses(x.line)
                   THEN Out(ParseFloat(x.line), x, self.command_mode)
                   ELSE Out(None, x, self.command_mode)
         ELSE Out(None, x, self.command_mode)
    ELSE LET x == send_binary_command(self, command_id, <<>>, io) IN
         IF Truthy(x) /\ Len(x.bytes) >= 2
         THEN Out(PyFloat(q88_to_float(unpack_h(x.bytes))), x, self.command_mode)
         ELSE Out(None, x, self.command_mode)

get_position(self, io) == GetQ88(self, "get_position", GET_POSITION, io)
get_velocity(self, io) == GetQ88(self, "get_velocity", GET_VELOCITY, io)
get_torque(self, io) == GetQ88(self, "get_torque", GET_TORQUE, io)

\* The shape shared by set_position, set_velocity and set_torque.
SetQ88(self, name, command_id, value, io) ==
    IF self.command_mode = HUMAN_READABLE
    THEN LET x == send_human_command(self, <<Word(name), Fmt(value)>>, io) IN
         IF Truthy(x) /\ StartsWith(x.line, name)
         THEN IF FloatParses(AfterFirst(x.line))
              THEN Out(True, x, self.command_mode)
              ELSE Out(False, x, self.command_mode)
         ELSE Out(PyBool(~x.none), x, self.command_mode)
    ELSE IF ~PackableH(float_to_q88(value.n))
         THEN Out(Raise("struct.error"), NotSent, self.command_mode)
         ELSE LET x == send_binary_command(self, command_id,
                                           pack_h(float_to_q88(value.n)), io) IN
              Out(PyBool(~x.none), x, self.command_mode)

set_position(self, position, io) ==
    SetQ88(self, "set_position", SET_POSITION, position, io)
set_velocity(self, velocity, io) ==
    SetQ88(self, "set_velocity", SET_VELOCITY, velocity, io)
set_torque(self, torque, io) ==
    SetQ88(self, "set_torque", SET_TORQUE, torque, io)

\* EchoOnly with response.startswith(name) in the place of response == name.
EchoOnly_StartsWith(self, name, command_id, io) ==
    IF self.command_mode = HUMAN_READABLE
    THEN LET x == send_human_command(self, <<Word(name)>>, io) IN
         Out(PyBool(~x.none /\ Len(x.line) >= 1 /\ x.line[1] = Word(name)), x,
             self.command_mode)
    ELSE LET x == send_binary_command(self, command_id, <<>>, io) IN
         Out(PyBool(~x.none), x, self.command_mode)

\* The shape shared by enable, disable and reset_position.
EchoOnly(self, name, command_id, io) ==
    IF self.command_mode = HUMAN_READABLE
    THEN LET x == send_human_command(self, <<Word(name)>>, io) IN
         Out(PyBool(~x.none /\ x.line = <<Word(name)>>), x, self.command_mode)
    ELSE LET x == send_binary_command(self, command_id, <<>>, io) IN
         Out(PyBool(~x.none), x, self.command_mode)

enable(self, io) == EchoOnly(self, "enable", ENABLE, io)
disable(self, io) == EchoOnly(self, "disable", DISABLE, io)
reset_position(self, io) == EchoOnly(self, "reset_position", RESET_POSITION, io)

\* The shape shared by home and stop.
AnyReply(self, name, command_id, io) ==
    IF self.command_mode = HUMAN_READABLE
    THEN LET x == send_human_command(self, <<Word(name)>>, io) IN
         Out(PyBool(~x.none), x, self.command_mode)
    ELSE LET x == send_binary_command(self, command_id, <<>>, io) IN
         Out(PyBool(~x.none), x, self.command_mode)

home(self, io) == AnyReply(self, "home", HOME, io)
stop(self, io) == AnyReply(self, "stop", STOP, io)

\* set_command_mode that assigns command_mode first and sends the request in
\* the encoding of the new mode.
set_command_mode_AssignsFirst(self, mode, io) ==
    IF mode = HUMAN_READABLE
    THEN LET x == send_human_command(self, <<Word("cmd_mode"), IntLit(mode)>>, io) IN
         Out(PyBool(~x.none), x, mode)
    ELSE LET x == send_binary_command(self, CMD_MODE, pack_h(mode), io) IN
         Out(PyBool(~x.none), x, mode)

set_command_mode(self, mode, io) ==
    IF self.command_mode = HUMAN_READABLE
    THEN LET x == send_human_command(self, <<Word("cmd_mode"), IntLit(mode)>>, io) IN
         Out(PyBool(~x.none), x, IF ~x.none THEN mode ELSE self.command_mode)
    ELSE LET x == send_binary_command(self, CMD_MODE, pack_h(mode), io) IN
         Out(PyBool(~x.none), x, IF ~x.none THEN mode ELSE self.command_mode)

\* float(parts[1]), float(parts[2]), float(parts[3]) all succeed
ThreeFloats(parts) ==
    \A j \in 2..4 : FloatParses(<<parts[j]>>)

\* GetPid without the test of command_mode: the text command goes out in
\* every mode.
GetPid_Exchanges(self, name, io) ==
    LET x == send_human_command(self, <<Word(name)>>, io) IN
    IF Truthy(x) /\ StartsWith(x.line, name)
       /\ Len(x.line) >= 4 /\ ThreeFloats(x.line)
    THEN Out(PyTuple(<<x.line[2].n, x.line[3].n, x.line[4].n>>), x,
             self.command_mode)
    ELSE Out(None, x, self.command_mode)

\* The shape shared by get_velocity_pid, get_angle_pid and get_current_pid.
GetPid(self, name, io) ==
    IF self.command_mode = HUMAN_READABLE
    THEN LET x == send_human_command(self, <<Word(name)>>, io) IN
         IF Truthy(x) /\ StartsWith(x.line, name)
            /\ Len(x.line) >= 4 /\ ThreeFloats(x.line)
         THEN Out(PyTuple(<<x.line[2].n, x.line[3].n, x.line[4].n>>), x,
                  self.command_mode)
         ELSE Out(None, x, self.command_mode)
    ELSE Out(None, NotSent, self.command_mode)

get_velocity_pid(self, io) == GetPid(self, "get_velocity_pid", io)
get_angle_pid(self, io) == GetPid(self, "get_angle_pid", io)
get_current_pid(self, io) == GetPid(self, "get_current_pid", io)

\* The shape shared by set_velocity_pid, set_angle_pid and set_current_pid;
\* pid is the tuple (p, i, d) of floats.
SetPid(self, name, pid, io) ==
    IF self.command_mode = HUMAN_READABLE
    THEN LET x == send_human_command(self,
                    <<Word(name), FloatLit(pid.t[1]), FloatLit(pid.t[2]),
                      FloatLit(pid.t[3])>>, io) IN
         IF Truthy(x) /\ StartsWith(x.line, name) /\ Len(x.line) >= 4
         THEN IF ThreeFloats(x.line)
              THEN Out(True, x, self.command_mode)
              ELSE Out(False, x, self.command_mode)
         ELSE Out(PyBool(~x.none), x, self.command_mode)
    ELSE Out(False, NotSent, self.command_mode)

set_velocity_pid(self, pid, io) == SetPid(self, "set_velocity_pid", pid, io)
set_angle_pid(self, pid, io) == SetPid(self, "set_angle_pid", pid, io)
set_current_pid(self, pid, io) == SetPid(self, "set_current_pid", pid, io)

\* save_config whose other-mode branch is a bare `return`: None, not False.
save_config_ReturnsNone(self, io) ==
    IF self.command_mode = HUMAN_READABLE
    THEN LET x == send_human_command(self, <<Word("save_config")>>, io) IN
         Out(PyBool(~x.none /\ x.line = <<Word("save_config")>>), x,
             self.command_mode)
    ELSE Out(None, NotSent, self.command_mode)

save_config(self, io) ==
    IF self.command_mode = HUMAN_READABLE
    THEN LET x == send_human_command(self, <<Word("save_config")>>, io) IN
         Out(PyBool(~x.none /\ x.line = <<Word("save_config")>>), x,
             self.command_mode)
    ELSE Out(False, NotSent, self.command_mode)

\* The shape shared by get_downsample and get_pole_pairs.
GetInt(self, name, io) ==
    IF self.command_mode = HUMAN_READABLE
    THEN LET x == send_human_command(self, <<Word(name)>>, io) IN
         IF Truthy(x) /\ StartsWith(x.line, name) /\ IntParses(AfterFirst(x.line))
         THEN Out(ParseInt(AfterFirst(x.line)), x, self.command_mode)
         ELSE Out(None, x, self.command_mode)
    ELSE Out(None, NotSent, self.command_mode)

get_downsample(self, io) == GetInt(self, "get_downsample", io)
get_pole_pairs(self, io) == GetInt(self, "get_pole_pairs", io)

\* The shape shared by set_downsample and set_pole_pairs.
SetInt(self, name, value, io) ==
    IF self.command_mode = HUMAN_READABLE
    THEN LET x == send_human_command(self, <<Word(name), Fmt(value)>>, io) IN
         IF Truthy(x) /\ StartsWith(x.line, name)
         THEN IF IntParses(AfterFirst(x.line))
              THEN Out(True, x, self.command_mode)
              ELSE Out(False, x, self.command_mode)
         ELSE Out(PyBool(~x.none), x, self.command_mode)
    ELSE Out(False, NotSent, self.command_mode)

set_downsample(self, downsample, io) ==
    SetInt(self, "set_downsample", downsample, io)
set_pole_pairs(self, pole_pairs, io) ==
    SetInt(self, "set_pole_pairs", pole_pairs, io)

\* GetFloatPrefixed that takes the value after the first word without
\* comparing the word with the command's name.
GetFloatPrefixed_AnyName(self, name, io) ==
    IF self.command_mode = HUMAN_READABLE
    THEN LET x == send_human_command(self, <<Word(name)>>, io) IN
         IF Truthy(x) /\ Len(x.line) >= 2 /\ FloatParses(AfterFirst(x.line))
         THEN Out(ParseFloat(AfterFirst(x.line)), x, self.command_mode)
         ELSE Out(None, x, self.command_mode)
    ELSE Out(None, NotSent, self.command_mode)

\* The shape shared by get_temperature, get_bus_voltage and
\* get_internal_temperature.
GetFloatPrefixed(self, name, io) ==
    IF self.command_mode = HUMAN_READABLE
    THEN LET x == send_human_command(self, <<Word(name)>>, io) IN
         IF Truthy(x) /\ StartsWith(x.line, name) /\ FloatParses(AfterFirst(x.line))
         THEN Out(ParseFloat(AfterFirst(x.line)), x, self.command_mode)
         ELSE Out(None, x, self.command_mode)
    ELSE Out(None, NotSent, self.command_mode)

get_temperature(self, io) == GetFloatPrefixed(self, "get_temperature", io)
get_bus_voltage(self, io) == GetFloatPrefixed(self, "get_bus_voltage", io)
get_internal_temperature(self, io) ==
    GetFloatPrefixed(self, "get_internal_temperature", io)

\* GetCurrent with a third branch, SIMPLEFOC, that has no implementation.
GetCurrent_SimpleFocBranch(self, name, command_id, io) ==
    IF self.command_mode = HUMAN_READABLE
    THEN LET x == send_human_command(self, <<Word(name)>>, io) IN
         IF Truthy(x) /\ StartsWith(x.line, name) /\ FloatParses(AfterFirst(x.line))
         THEN Out(ParseFloat(AfterFirst(x.line)), x, self.command_mode)
         ELSE Out(None, x, self.command_mode)
    ELSE IF self.command_mode = SIMPLEFOC
    THEN Out(None, NotSent, self.command_mode)
    ELSE LET x == send_binary_command(self, command_id, <<>>, io) IN
         IF Truthy(x) /\ Len(x.bytes) >= 4
         THEN Out(unpack_f(x.bytes), x, self.command_mode)
         ELSE Out(None, x, self.command_mode)

\* The shape shared by get_current_a, get_current_b and get_current_c.
GetCurrent(self, name, command_id, io) ==
    IF self.command_mode = HUMAN_READABLE
    THEN LET x == send_human_command(self, <<Word(name)>>, io) IN
         IF Truthy(x) /\ StartsWith(x.line, name) /\ FloatParses(AfterFirst(x.line))
         THEN Out(ParseFloat(AfterFirst(x.line)), x, self.command_mode)
         ELSE Out(None, x, self.command_mode)
    ELSE LET x == send_binary_command(self, command_id, <<>>, io) IN
         IF Truthy(x) /\ Len(x.bytes) >= 4
         THEN Out(unpack_f(x.bytes), x, self.command_mode)
         ELSE Out(None, x, self.command_mode)

get_current_a(self, io) == GetCurrent(self, "get_current_a", GET_CURRENT_A, io)
get_current_b(self, io) == GetCurrent(self, "get_current_b", GET_CURRENT_B, io)
get_current_c(self, io) == GetCurrent(self, "get_current_c", GET_CURRENT_C, io)

recalibrate_sensors(self, io) ==
    IF self.command_mode = HUMAN_READABLE
    THEN LET x == send_human_command(self, <<Word("recalibrate_sensors")>>, io) IN
         Out(PyBool(~x.none), x, self.command_mode)
    ELSE Out(False, NotSent, self.command_mode)

\* The keys of the dict get_full_state returns, in the order of the fields.
FullStateKeys ==
    <<"position", "velocity", "torque", "temperature", "bus_voltage",
      "internal_temperature", "current_a", "current_b", "current_c">>

\* get_full_state without the test of the leading "full_state ".
get_full_state_AnyPrefix(self, io) ==
    IF self.command_mode = HUMAN_READABLE
    THEN LET x == send_human_command(self, <<Word("get_full_state")>>, io) IN
         IF Truthy(x) /\ Len(x.line) >= 10
            /\ \A j \in 2..10 : FloatParses(<<x.line[j]>>)
         THEN Out(PyDict([j \in 1..9 |-> x.line[j + 1].n]), x, self.command_mode)
         ELSE Out(None, x, self.command_mode)
    ELSE Out(None, NotSent, self.command_mode)

get_full_state(self, io) ==
    IF self.command_mode = HUMAN_READABLE
    THEN LET x == send_human_command(self, <<Word("get_full_state")>>, io) IN
         IF Truthy(x) /\ StartsWith(x.line, "full_state") /\ Len(x.line) >= 10
            /\ \A j \in 2..10 : FloatParses(<<x.line[j]>>)
         THEN Out(PyDict([j \in 1..9 |-> x.line[j + 1].n]), x, self.command_mode)
         ELSE Out(None, x, self.command_mode)
    ELSE Out(None, NotSent, self.command_mode)

---------------------------------------------------------------------------
(* Inputs: arguments of the calls and behaviours of the port *)

\* -0.5 and 42.0
Floats == {-(Unit \div 2), 42 * Unit}
Ints == {2, 4}
\* (1.0, 0.0, 0.5) and (42.0, -0.5, 0.0)
Pids == {<<Unit, 0, Unit \div 2>>, <<42 * Unit, -(Unit \div 2), 0>>}

FloatArgs == {PyFloat(v) : v \in Floats}
IntArgs == {PyInt(i) : i \in Ints}
PidArgs == {PyTuple(t) : t \in Pids}

NumLits == {FloatLit(v) : v \in Floats} \cup {IntLit(i) : i \in Ints}
OtherName(name) == IF name = "get_position" THEN "get_velocity" ELSE "get_position"

PidLine(name, t) == <<Word(name), FloatLit(t[1]), FloatLit(t[2]), FloatLit(t[3])>>
FullStateLine(n) == <<Word("full_state")>> \o [j \in 1..n |-> FloatLit(j * Unit)]

\* The lines that carry a value for the request `name`, as the firmware
\* echoes them.
ValueLines(name) ==
    IF name \in {"get_velocity_pid", "get_angle_pid", "get_current_pid",
                 "set_velocity_pid", "set_angle_pid", "set_current_pid"}
    THEN {PidLine(name, t) : t \in Pids}
    ELSE IF name \in {"get_downsample", "set_downsample",
                      "get_pole_pairs", "set_pole_pairs"}
    THEN {<<Word(name), IntLit(i)>> : i \in Ints}
    ELSE IF name = "get_full_state" THEN {FullStateLine(9)}
    ELSE {<<Word(name), FloatLit(v)>> : v \in Floats}

\* The text lines the board may leave to read after the request `name`:
\* nothing (timeout), the bare name, the name with a value, a bare value,
\* too few or too many values, an unparseable value, another command's echo.
Lines(name) ==
    {<<>>, <<Word(name)>>, <<Word("unknown_command")>>}
    \cup {<<Word(name), x>> : x \in NumLits \cup {Word("error")}}
    \cup {<<FloatLit(42 * Unit)>>, <<IntLit(4)>>}
    \cup {<<Word(name), FloatLit(Unit), FloatLit(0)>>}
    \cup {PidLine(name, t) : t \in Pids}
    \cup {<<Word(name), FloatLit(Unit), FloatLit(0), Word("error")>>}
    \cup {<<Word(OtherName(name)), FloatLit(42 * Unit)>>}
    \cup {[l EXCEPT ![1] = Word(OtherName(name))] : l \in ValueLines(name)}
    \cup (IF name = "get_full_state"
          THEN {FullStateLine(9), FullStateLine(8),
                [FullStateLine(9) EXCEPT ![10] = Word("error")],
                [FullStateLine(9) EXCEPT ![5] = Word("error")],
                [FullStateLine(9) EXCEPT ![1] = Word("get_full_state")]}
          ELSE {})

\* The lines explored under the facade, one per outcome of the interface
\* call: timeout, an unparseable value, and each well-formed reply.
FacadeLines(name) ==
    {<<>>, <<Word(name), Word("error")>>}
    \cup (IF name \in {"enable", "disable", "home", "stop", "reset_position",
                       "save_config", "recalibrate_sensors"}
          THEN {<<Word(name)>>}
          ELSE ValueLines(name))

\* The raw bytes the board may leave to read: nothing, an acknowledge byte,
\* Q8.8 words (-0.5, 42.0) and a float32 (1.0).
ByteReplies == {<<>>, <<1>>, <<255, 128>>, <<42, 0>>, <<63, 128, 0, 0>>}

NoReply == Io("none", <<>>, <<>>)

\* Every behaviour of the port during one exchange started by `name`.
IOs(self, name) ==
    IF ~self.connected THEN {NoReply}
    ELSE IF self.command_mode = HUMAN_READABLE
    THEN {Io(f, <<>>, <<>>) : f \in {"write", "read", "decode"}}
         \cup {Io("none", l, <<>>) : l \in Lines(name)}
    ELSE {Io(f, <<>>, <<>>) : f \in {"write", "read"}}
         \cup {Io("none", <<>>, b) : b \in ByteReplies}

\* The behaviours of the port explored under the facade.
FacadeIOs(self, name) ==
    IF ~self.connected THEN {NoReply}
    ELSE IF self.command_mode = HUMAN_READABLE
    THEN {Io("read", <<>>, <<>>)} \cup {Io("none", l, <<>>) : l \in FacadeLines(name)}
    ELSE {Io("read", <<>>, <<>>)} \cup {Io("none", <<>>, b) : b \in {<<>>, <<1>>}}

---------------------------------------------------------------------------
(* State *)

Fields == {"position", "velocity", "torque", "temperature", "bus_voltage",
           "internal_temperature", "enabled", "velocity_pid", "angle_pid",
           "current_pid", "downsample", "min_angle", "max_angle",
           "torque_controller", "foc_modulation"}

\* No call has returned that the caller has not yet taken the result of.
Idle ==
    [layer |-> "none", op |-> "idle", args |-> <<>>,
     self |-> [connected |-> FALSE, serial_conn |-> "None",
               command_mode |-> HUMAN_READABLE],
     io |-> NoReply, writes |-> <<>>, reads |-> <<>>, result |-> None]

\* The threads of the GUI: the Tk main thread and the three polling loops.
\* "monitor" is the thread the latest start_monitoring() started.
Threads == {"main", "status", "monitor", "plot"}

\* No setup of a new actuator has been asked for.
NoSetup == [pole_pairs |-> 0, called |-> <<>>, reported |-> <<>>, outcome |-> "none"]

\* ActuatorGUI.__init__: nothing connected, no loop running.
NoWindow ==
    [connected |-> FALSE, actuator |-> FALSE, monitoring |-> FALSE,
     status_monitoring |-> FALSE, plotting_polling |-> FALSE, plotting |-> FALSE,
     earlier_monitor_loops |-> 0, plot_loops |-> 0,
     plot_start_btn |-> FALSE, plot_stop_btn |-> FALSE,
     state_read |-> FALSE, delivered |-> FALSE, setup |-> NoSetup]
NotStarted ==
    [t \in Threads |->
        [loc |-> IF t = "main" THEN "idle" ELSE "off", job |-> "none", i |-> 0]]

\* No value is being converted.
NoCodec == [pc |-> "none", src |-> "none", value |-> 0, word |-> 0, back |-> 0]

\* No line read from the port: readline() timed out.
NoLine == [of |-> 0, kind |-> "none"]

\* A port on which nothing has been written or received.
NoStream ==
    [rx |-> <<>>, owed |-> <<>>, waiting |-> 0, sent |-> 0, pushed |-> <<>>,
     last |-> [req |-> 0, line |-> NoLine], sink |-> <<>>]

\* USBInterface.__init__ and ACBv2.__init__
Init ==
    /\ connected = FALSE
    /\ serial_conn = "None"
    /\ unclosed = 0
    /\ command_mode = HUMAN_READABLE
    /\ cache = [f \in Fields |-> IF f = "enabled" THEN False ELSE None]
    /\ lastOp = Idle
    /\ codec = NoCodec
    /\ gui = NoWindow
    /\ pc = NotStarted
    /\ stream = NoStream

\* The record of a call that returned (or raised): who was called, with what
\* arguments, the interface object when it was called, the port's behaviour
\* if an exchange took place, and the outcome.
Called(layer, op, args, io, out) ==
    [layer |-> layer, op |-> op, args |-> args, self |-> Self,
     io |-> IF out.writes = <<>> THEN NoReply ELSE io,
     writes |-> out.writes, reads |-> out.reads, result |-> out.result]

---------------------------------------------------------------------------
(* Callers *)

\* The caller takes the result of the call that returned and goes on to its
\* next statement; calls are made one after the other.
caller_continues ==
    /\ lastOp # Idle
    /\ lastOp' = Idle
    /\ UNCHANGED <<stream, unclosed, codec, gui, pc, connected, serial_conn, command_mode, cache>>

---------------------------------------------------------------------------
(* Connection lifecycle *)

\* What becomes of the serial.Serial object that self.serial_conn referred to
\* when connect() assigns a new one: connect() does not close it.  Whether the
\* runtime finalises (and so closes) the dropped object is the runtime's
\* choice; otherwise it stays open beside the new one.
Dropped(conn, finalized) ==
    IF conn = "open" /\ ~finalized THEN 1 ELSE 0

\* USBInterface.connect(): serial.Serial(...) opens the port or raises.
connect ==
    \E opened \in BOOLEAN, finalized \in BOOLEAN :
        /\ lastOp = Idle
        /\ connected' = opened
        /\ serial_conn' = IF opened THEN "open" ELSE serial_conn
        /\ unclosed' = IF opened THEN unclosed + Dropped(serial_conn, finalized)
                                  ELSE unclosed
        /\ unclosed' <= MaxUnclosed
        /\ lastOp' = Called("USBInterface", "connect", <<>>, NoReply,
                            Out(PyBool(opened), NotSent, command_mode))
        /\ UNCHANGED <<stream, codec, gui, pc, command_mode, cache>>

\* USBInterface.disconnect()
disconnect ==
    /\ lastOp = Idle
    /\ connected' = FALSE
    /\ serial_conn' = IF serial_conn = "open" THEN "closed" ELSE serial_conn
    /\ lastOp' = Called("USBInterface", "disconnect", <<>>, NoReply,
                        Out(None, NotSent, command_mode))
    /\ UNCHANGED <<stream, unclosed, codec, gui, pc, command_mode, cache>>

---------------------------------------------------------------------------
(* Calls made directly on the USBInterface object *)

\* A public operation of USBInterface returns `out`.
IfaceCall(op, args, io, out) ==
    /\ lastOp = Idle
    /\ lastOp' = Called("USBInterface", op, args, io, out)
    /\ command_mode' = out.mode
    /\ UNCHANGED <<stream, unclosed, codec, gui, pc, connected, serial_conn, cache>>

USB_get_position ==
    \E io \in IOs(Self, "get_position") :
        IfaceCall("get_position", <<>>, io, get_position(Self, io))

USB_get_velocity ==
    \E io \in IOs(Self, "get_velocity") :
        IfaceCall("get_velocity", <<>>, io, get_velocity(Self, io))

USB_get_torque ==
    \E io \in IOs(Self, "get_torque") :
        IfaceCall("get_torque", <<>>, io, get_torque(Self, io))

USB_set_position ==
    \E position \in FloatArgs, io \in IOs(Self, "set_position") :
        IfaceCall("set_position", <<position>>, io, set_position(Self, position, io))

USB_set_velocity ==
    \E velocity \in FloatArgs, io \in IOs(Self, "set_velocity") :
        IfaceCall("set_velocity", <<velocity>>, io, set_velocity(Self, velocity, io))

USB_set_torque ==
    \E torque \in FloatArgs, io \in IOs(Self, "set_torque") :
        IfaceCall("set_torque", <<torque>>, io, set_torque(Self, torque, io))

USB_enable ==
    \E io \in IOs(Self, "enable") :
        IfaceCall("enable", <<>>, io, enable(Self, io))

USB_disable ==
    \E io \in IOs(Self, "disable") :
        IfaceCall("disable", <<>>, io, disable(Self, io))

USB_home ==
    \E io \in IOs(Self, "home") :
        IfaceCall("home", <<>>, io, home(Self, io))

USB_stop ==
    \E io \in IOs(Self, "stop") :
        IfaceCall("stop", <<>>, io, stop(Self, io))

USB_reset_position ==
    \E io \in IOs(Self, "reset_position") :
        IfaceCall("reset_position", <<>>, io, reset_position(Self, io))

USB_set_command_mode ==
    \E mode \in CommandMode, io \in IOs(Self, "cmd_mode") :
        IfaceCall("set_command_mode", <<PyInt(mode)>>, io,
                  set_command_mode(Self, mode, io))

USB_get_velocity_pid ==
    \E io \in IOs(Self, "get_velocity_pid") :
        IfaceCall("get_velocity_pid", <<>>, io, get_velocity_pid(Self, io))

USB_set_velocity_pid ==
    \E pid \in PidArgs, io \in IOs(Self, "set_velocity_pid") :
        IfaceCall("set_velocity_pid", <<pid>>, io, set_velocity_pid(Self, pid, io))

USB_get_angle_pid ==
    \E io \in IOs(Self, "get_angle_pid") :
        IfaceCall("get_angle_pid", <<>>, io, get_angle_pid(Self, io))

USB_set_angle_pid ==
    \E pid \in PidArgs, io \in IOs(Self, "set_angle_pid") :
        IfaceCall("set_angle_pid", <<pid>>, io, set_angle_pid(Self, pid, io))

USB_get_current_pid ==
    \E io \in IOs(Self, "get_current_pid") :
        IfaceCall("get_current_pid", <<>>, io, get_current_pid(Self, io))

USB_set_current_pid ==
    \E pid \in PidArgs, io \in IOs(Self, "set_current_pid") :
        IfaceCall("set_current_pid", <<pid>>, io, set_current_pid(Self, pid, io))

USB_save_config ==
    \E io \in IOs(Self, "save_config") :
        IfaceCall("save_config", <<>>, io, save_config(Self, io))

USB_get_downsample ==
    \E io \in IOs(Self, "get_downsample") :
        IfaceCall("get_downsample", <<>>, io, get_downsample(Self, io))

USB_set_downsample ==
    \E downsample \in IntArgs, io \in IOs(Self, "set_downsample") :
        IfaceCall("set_downsample", <<downsample>>, io, set_downsample(Self, downsample, io))

USB_get_temperature ==
    \E io \in IOs(Self, "get_temperature") :
        IfaceCall("get_temperature", <<>>, io, get_temperature(Self, io))

USB_get_bus_voltage ==
    \E io \in IOs(Self, "get_bus_voltage") :
        IfaceCall("get_bus_voltage", <<>>, io, get_bus_voltage(Self, io))

USB_get_internal_temperature ==
    \E io \in IOs(Self, "get_internal_temperature") :
        IfaceCall("get_internal_temperature", <<>>, io, get_internal_temperature(Self, io))

USB_get_current_a ==
    \E io \in IOs(Self, "get_current_a") :
        IfaceCall("get_current_a", <<>>, io, get_current_a(Self, io))

USB_get_current_b ==
    \E io \in IOs(Self, "get_current_b") :
        IfaceCall("get_current_b", <<>>, io, get_current_b(Self, io))

USB_get_current_c ==
    \E io \in IOs(Self, "get_current_c") :
        IfaceCall("get_current_c", <<>>, io, get_current_c(Self, io))

USB_recalibrate_sensors ==
    \E io \in IOs(Self, "recalibrate_sensors") :
        IfaceCall("recalibrate_sensors", <<>>, io, recalibrate_sensors(Self, io))

USB_get_pole_pairs ==
    \E io \in IOs(Self, "get_pole_pairs") :
        IfaceCall("get_pole_pairs", <<>>, io, get_pole_pairs(Self, io))

USB_set_pole_pairs ==
    \E pole_pairs \in IntArgs, io \in IOs(Self, "set_pole_pairs") :
        IfaceCall("set_pole_pairs", <<pole_pairs>>, io, set_pole_pairs(Self, pole_pairs, io))

USB_get_full_state ==
    \E io \in IOs(Self, "get_full_state") :
        IfaceCall("get_full_state", <<>>, io, get_full_state(Self, io))

\* Any caller of the protocol client: one public call at a time.
Next ==
    \/ caller_continues
    \/ connect
    \/ disconnect
    \/ USB_get_position
    \/ USB_get_velocity
    \/ USB_get_torque
    \/ USB_set_position
    \/ USB_set_velocity
    \/ USB_set_torque
    \/ USB_enable
    \/ USB_disable
    \/ USB_home
    \/ USB_stop
    \/ USB_reset_position
    \/ USB_set_command_mode
    \/ USB_get_velocity_pid
    \/ USB_set_velocity_pid
    \/ USB_get_angle_pid
    \/ USB_set_angle_pid
    \/ USB_get_current_pid
    \/ USB_set_current_pid
    \/ USB_save_config
    \/ USB_get_downsample
    \/ USB_set_downsample
    \/ USB_get_temperature
    \/ USB_get_bus_voltage
    \/ USB_get_internal_temperature
    \/ USB_get_current_a
    \/ USB_get_current_b
    \/ USB_get_current_c
    \/ USB_recalibrate_sensors
    \/ USB_get_pole_pairs
    \/ USB_set_pole_pairs
    \/ USB_get_full_state


Spec == Init /\ [][Next]_vars

---------------------------------------------------------------------------
(* The ACBv2 facade *)

\* Fresh objects, as every caller of the repository makes them: a new
\* USBInterface, a new ACBv2 on it, and command_mode assigned the mode the
\* user selected, before connect().
new_actuator ==
    \E mode \in CommandMode :
        /\ lastOp = Idle
        /\ connected' = FALSE
        /\ serial_conn' = "None"
        /\ command_mode' = mode
        /\ cache' = [f \in Fields |-> IF f = "enabled" THEN False ELSE None]
        /\ lastOp' = [layer |-> "caller", op |-> "__init__", args |-> <<PyInt(mode)>>,
                      self |-> [connected |-> FALSE, serial_conn |-> "None",
                                command_mode |-> mode],
                      io |-> NoReply, writes |-> <<>>, reads |-> <<>>,
                      result |-> None]
        /\ unclosed' = 0
        /\ UNCHANGED <<stream, codec, gui, pc>>

\* Number of cached fields that hold a value.
Populated(c) == Cardinality({f \in Fields \ {"enabled"} : c[f] # None})

\* CacheOnGet without `if x is not None`: the field is assigned whatever
\* the interface returned.
CacheOnGet_Unconditional(c, field, result) ==
    IF result.k # "raise" THEN [c EXCEPT ![field] = result] ELSE c

\* `x = self.interface.get_x(); if x is not None: self._x = x`
CacheOnGet(c, field, result) ==
    IF result # None /\ result.k # "raise" THEN [c EXCEPT ![field] = result] ELSE c

\* A set that stores the requested value and forgets every other cached
\* field.
CacheOnSet_ForgetsOthers(c, field, requested, result) ==
    IF result = True
    THEN [f \in Fields |-> IF f = field THEN requested
                           ELSE IF f = "enabled" THEN False ELSE None]
    ELSE c

\* `success = self.interface.set_x(v); if success: self._x = v`
CacheOnSet(c, field, requested, result) ==
    IF result = True THEN [c EXCEPT ![field] = requested] ELSE c

\* self.interface.<name>(...) for a name USBInterface does not define.
NoSuchMethod(self) == Out(Raise("AttributeError"), NotSent, self.command_mode)

\* A public operation of ACBv2 returns `out`, leaving the cache `c`.
FacadeCall(op, args, io, out, c) ==
    /\ lastOp = Idle
    /\ Populated(c) <= MaxPopulated
    /\ lastOp' = Called("ACBv2", op, args, io, out)
    /\ command_mode' = out.mode
    /\ cache' = c
    /\ UNCHANGED <<stream, unclosed, codec, gui, pc, connected, serial_conn>>

ACBv2_get_position ==
    \E io \in FacadeIOs(Self, "get_position") :
        LET out == get_position(Self, io) IN
        FacadeCall("get_position", <<>>, io, out, CacheOnGet(cache, "position", out.result))

ACBv2_get_velocity ==
    \E io \in FacadeIOs(Self, "get_velocity") :
        LET out == get_velocity(Self, io) IN
        FacadeCall("get_velocity", <<>>, io, out, CacheOnGet(cache, "velocity", out.result))

ACBv2_get_torque ==
    \E io \in FacadeIOs(Self, "get_torque") :
        LET out == get_torque(Self, io) IN
        FacadeCall("get_torque", <<>>, io, out, CacheOnGet(cache, "torque", out.result))

ACBv2_set_position ==
    \E position \in FloatArgs, io \in FacadeIOs(Self, "set_position") :
        LET out == set_position(Self, position, io) IN
        FacadeCall("set_position", <<position>>, io, out, cache)

ACBv2_set_velocity ==
    \E velocity \in FloatArgs, io \in FacadeIOs(Self, "set_velocity") :
        LET out == set_velocity(Self, velocity, io) IN
        FacadeCall("set_velocity", <<velocity>>, io, out, cache)

ACBv2_set_torque ==
    \E torque \in FloatArgs, io \in FacadeIOs(Self, "set_torque") :
        LET out == set_torque(Self, torque, io) IN
        FacadeCall("set_torque", <<torque>>, io, out, cache)

ACBv2_enable ==
    \E io \in FacadeIOs(Self, "enable") :
        LET out == enable(Self, io) IN
        FacadeCall("enable", <<>>, io, out, CacheOnSet(cache, "enabled", True, out.result))

ACBv2_disable ==
    \E io \in FacadeIOs(Self, "disable") :
        LET out == disable(Self, io) IN
        FacadeCall("disable", <<>>, io, out, CacheOnSet(cache, "enabled", False, out.result))

ACBv2_home ==
    \E io \in FacadeIOs(Self, "home") :
        LET out == home(Self, io) IN
        FacadeCall("home", <<>>, io, out, cache)

ACBv2_stop ==
    \E io \in FacadeIOs(Self, "stop") :
        LET out == stop(Self, io) IN
        FacadeCall("stop", <<>>, io, out, cache)

ACBv2_reset_position ==
    \E io \in FacadeIOs(Self, "reset_position") :
        LET out == reset_position(Self, io) IN
        FacadeCall("reset_position", <<>>, io, out, cache)

ACBv2_get_temperature ==
    \E io \in FacadeIOs(Self, "get_temperature") :
        LET out == get_temperature(Self, io) IN
        FacadeCall("get_temperature", <<>>, io, out, CacheOnGet(cache, "temperature", out.result))

ACBv2_get_bus_voltage ==
    \E io \in FacadeIOs(Self, "get_bus_voltage") :
        LET out == get_bus_voltage(Self, io) IN
        FacadeCall("get_bus_voltage", <<>>, io, out, CacheOnGet(cache, "bus_voltage", out.result))

ACBv2_get_internal_temperature ==
    \E io \in FacadeIOs(Self, "get_internal_temperature") :
        LET out == get_internal_temperature(Self, io) IN
        FacadeCall("get_internal_temperature", <<>>, io, out, CacheOnGet(cache, "internal_temperature", out.result))

ACBv2_get_current_a ==
    \E io \in FacadeIOs(Self, "get_current_a") :
        LET out == get_current_a(Self, io) IN
        FacadeCall("get_current_a", <<>>, io, out, cache)

ACBv2_get_current_b ==
    \E io \in FacadeIOs(Self, "get_current_b") :
        LET out == get_current_b(Self, io) IN
        FacadeCall("get_current_b", <<>>, io, out, cache)

ACBv2_get_current_c ==
    \E io \in FacadeIOs(Self, "get_current_c") :
        LET out == get_current_c(Self, io) IN
        FacadeCall("get_current_c", <<>>, io, out, cache)

ACBv2_get_velocity_pid ==
    \E io \in FacadeIOs(Self, "get_velocity_pid") :
        LET out == get_velocity_pid(Self, io) IN
        FacadeCall("get_velocity_pid", <<>>, io, out, CacheOnGet(cache, "velocity_pid", out.result))

ACBv2_set_velocity_pid ==
    \E pid \in PidArgs, io \in FacadeIOs(Self, "set_velocity_pid") :
        LET out == set_velocity_pid(Self, pid, io) IN
        FacadeCall("set_velocity_pid", <<pid>>, io, out, CacheOnSet(cache, "velocity_pid", pid, out.result))

ACBv2_get_angle_pid ==
    \E io \in FacadeIOs(Self, "get_angle_pid") :
        LET out == get_angle_pid(Self, io) IN
        FacadeCall("get_angle_pid", <<>>, io, out, CacheOnGet(cache, "angle_pid", out.result))

ACBv2_set_angle_pid ==
    \E pid \in PidArgs, io \in FacadeIOs(Self, "set_angle_pid") :
        LET out == set_angle_pid(Self, pid, io) IN
        FacadeCall("set_angle_pid", <<pid>>, io, out, CacheOnSet(cache, "angle_pid", pid, out.result))

ACBv2_get_current_pid ==
    \E io \in FacadeIOs(Self, "get_current_pid") :
        LET out == get_current_pid(Self, io) IN
        FacadeCall("get_current_pid", <<>>, io, out, CacheOnGet(cache, "current_pid", out.result))

ACBv2_set_current_pid ==
    \E pid \in PidArgs, io \in FacadeIOs(Self, "set_current_pid") :
        LET out == set_current_pid(Self, pid, io) IN
        FacadeCall("set_current_pid", <<pid>>, io, out, CacheOnSet(cache, "current_pid", pid, out.result))

ACBv2_save_config ==
    \E io \in FacadeIOs(Self, "save_config") :
        LET out == save_config(Self, io) IN
        FacadeCall("save_config", <<>>, io, out, cache)

ACBv2_get_downsample ==
    \E io \in FacadeIOs(Self, "get_downsample") :
        LET out == get_downsample(Self, io) IN
        FacadeCall("get_downsample", <<>>, io, out, CacheOnGet(cache, "downsample", out.result))

ACBv2_set_downsample ==
    \E downsample \in IntArgs, io \in FacadeIOs(Self, "set_downsample") :
        LET out == set_downsample(Self, downsample, io) IN
        FacadeCall("set_downsample", <<downsample>>, io, out, CacheOnSet(cache, "downsample", downsample, out.result))

ACBv2_recalibrate_sensors ==
    \E io \in FacadeIOs(Self, "recalibrate_sensors") :
        LET out == recalibrate_sensors(Self, io) IN
        FacadeCall("recalibrate_sensors", <<>>, io, out, cache)

ACBv2_get_pole_pairs ==
    \E io \in FacadeIOs(Self, "get_pole_pairs") :
        LET out == get_pole_pairs(Self, io) IN
        FacadeCall("get_pole_pairs", <<>>, io, out, cache)

ACBv2_set_pole_pairs ==
    \E pole_pairs \in IntArgs, io \in FacadeIOs(Self, "set_pole_pairs") :
        LET out == set_pole_pairs(Self, pole_pairs, io) IN
        FacadeCall("set_pole_pairs", <<pole_pairs>>, io, out, cache)

ACBv2_get_full_state ==
    \E io \in FacadeIOs(Self, "get_full_state") :
        LET out == get_full_state(Self, io) IN
        FacadeCall("get_full_state", <<>>, io, out, cache)

ACBv2_get_min_angle ==
    LET out == NoSuchMethod(Self) IN
        FacadeCall("get_min_angle", <<>>, NoReply, out, CacheOnGet(cache, "min_angle", out.result))

ACBv2_set_min_angle ==
    \E min_angle \in FloatArgs :
        LET out == NoSuchMethod(Self) IN
        FacadeCall("set_min_angle", <<min_angle>>, NoReply, out, CacheOnSet(cache, "min_angle", min_angle, out.result))

ACBv2_get_max_angle ==
    LET out == NoSuchMethod(Self) IN
        FacadeCall("get_max_angle", <<>>, NoReply, out, CacheOnGet(cache, "max_angle", out.result))

ACBv2_set_max_angle ==
    \E max_angle \in FloatArgs :
        LET out == NoSuchMethod(Self) IN
        FacadeCall("set_max_angle", <<max_angle>>, NoReply, out, CacheOnSet(cache, "max_angle", max_angle, out.result))

ACBv2_get_torque_controller ==
    LET out == NoSuchMethod(Self) IN
        FacadeCall("get_torque_controller", <<>>, NoReply, out, CacheOnGet(cache, "torque_controller", out.result))

ACBv2_set_torque_controller ==
    \E controller_type \in IntArgs :
        LET out == NoSuchMethod(Self) IN
        FacadeCall("set_torque_controller", <<controller_type>>, NoReply, out, CacheOnSet(cache, "torque_controller", controller_type, out.result))

ACBv2_get_foc_modulation ==
    LET out == NoSuchMethod(Self) IN
        FacadeCall("get_foc_modulation", <<>>, NoReply, out, CacheOnGet(cache, "foc_modulation", out.result))

ACBv2_set_foc_modulation ==
    \E modulation_type \in IntArgs :
        LET out == NoSuchMethod(Self) IN
        FacadeCall("set_foc_modulation", <<modulation_type>>, NoReply, out, CacheOnSet(cache, "foc_modulation", modulation_type, out.result))

\* Any caller of the facade: one public call at a time.
NextFacade ==
    \/ caller_continues
    \/ new_actuator
    \/ connect
    \/ disconnect
    \/ ACBv2_get_position
    \/ ACBv2_get_velocity
    \/ ACBv2_get_torque
    \/ ACBv2_set_position
    \/ ACBv2_set_velocity
    \/ ACBv2_set_torque
    \/ ACBv2_enable
    \/ ACBv2_disable
    \/ ACBv2_home
    \/ ACBv2_stop
    \/ ACBv2_reset_position
    \/ ACBv2_get_temperature
    \/ ACBv2_get_bus_voltage
    \/ ACBv2_get_internal_temperature
    \/ ACBv2_get_current_a
    \/ ACBv2_get_current_b
    \/ ACBv2_get_current_c
    \/ ACBv2_get_velocity_pid
    \/ ACBv2_set_velocity_pid
    \/ ACBv2_get_angle_pid
    \/ ACBv2_set_angle_pid
    \/ ACBv2_get_current_pid
    \/ ACBv2_set_current_pid
    \/ ACBv2_save_config
    \/ ACBv2_get_downsample
    \/ ACBv2_set_downsample
    \/ ACBv2_recalibrate_sensors
    \/ ACBv2_get_pole_pairs
    \/ ACBv2_set_pole_pairs
    \/ ACBv2_get_full_state
    \/ ACBv2_get_min_angle
    \/ ACBv2_set_min_angle
    \/ ACBv2_get_max_angle
    \/ ACBv2_set_max_angle
    \/ ACBv2_get_torque_controller
    \/ ACBv2_set_torque_controller
    \/ ACBv2_get_foc_modulation
    \/ ACBv2_set_foc_modulation


SpecFacade == Init /\ [][NextFacade]_vars

---------------------------------------------------------------------------
(* The fixed-point codec on its own *)

\* Values taken between two neighbouring multiples of 1/256.
SubSteps == 5

\* 1/256 in 1/Unit
Lsb == Unit \div 256

\* The floats converted: the grid of step 1/(256 * SubSteps) over
\* [-128.0, 128.0) ...
GridValue(q, r) == q * Lsb + r * (Lsb \div SubSteps)

\* ... and values at and beyond the clamp bounds.
EdgeValues ==
    {ClampHi, 128 * Unit, 200 * Unit, ClampLo - 1, ClampLo - Lsb, -200 * Unit}

\* The 16-bit words a reply can carry.
CodecWords == 0..65535

ValueIn(v) == [pc |-> "value", src |-> "value", value |-> v, word |-> 0, back |-> 0]
WordIn(w) == [pc |-> "word", src |-> "word", value |-> 0, word |-> w, back |-> 0]

\* A value about to be encoded, or a word about to be decoded.
InitCodec ==
    /\ connected = FALSE
    /\ serial_conn = "None"
    /\ unclosed = 0
    /\ command_mode = HUMAN_READABLE
    /\ cache = [f \in Fields |-> IF f = "enabled" THEN False ELSE None]
    /\ lastOp = Idle
    /\ gui = NoWindow
    /\ pc = NotStarted
    /\ stream = NoStream
    /\ \/ \E q \in -32768..32767, r \in 0..(SubSteps - 1) :
              codec = ValueIn(GridValue(q, r))
       \/ \E v \in EdgeValues : codec = ValueIn(v)
       \/ \E w \in CodecWords : codec = WordIn(w)

\* w = self._float_to_q88(v)
call_float_to_q88 ==
    /\ codec.pc = "value"
    /\ codec' = [codec EXCEPT !.pc = "word", !.word = float_to_q88(codec.value)]
    /\ UNCHANGED <<stream, connected, serial_conn, unclosed, command_mode, cache, lastOp, gui, pc>>

\* self._q88_to_float(w)
call_q88_to_float ==
    /\ codec.pc = "word"
    /\ codec' = [codec EXCEPT !.pc = "float", !.back = q88_to_float(codec.word)]
    /\ UNCHANGED <<stream, connected, serial_conn, unclosed, command_mode, cache, lastOp, gui, pc>>

NextCodec ==
    \/ call_float_to_q88
    \/ call_q88_to_float

SpecCodec == InitCodec /\ [][NextCodec]_vars

---------------------------------------------------------------------------
(* The GUI: the Tk main thread and the polling threads on one interface *)

\* The calls on self.actuator that each loop body and each callback of the
\* main thread makes, in order.
status_monitor_loop ==
    <<"get_position", "get_velocity", "get_torque", "get_temperature",
      "get_internal_temperature", "get_bus_voltage">>
monitor_loop ==
    <<"get_position", "get_velocity", "get_torque", "get_current_a",
      "get_current_b", "get_current_c">>
plotting_polling_loop == <<"get_full_state">>
load_config ==
    <<"get_velocity_pid", "get_angle_pid", "get_current_pid", "get_downsample">>
enable_actuator == <<"enable">>
perform_actuator_setup == <<"set_pole_pairs", "recalibrate_sensors", "save_config">>

Calls(job) ==
    CASE job = "status_monitor_loop" -> status_monitor_loop
      [] job = "monitor_loop" -> monitor_loop
      [] job = "plotting_polling_loop" -> plotting_polling_loop
      [] job = "load_config" -> load_config
      [] job = "enable_actuator" -> enable_actuator
      [] job = "perform_actuator_setup" -> perform_actuator_setup

\* The loop each polling thread runs, and the condition of its `while`.
Loop(t) ==
    CASE t = "status" -> "status_monitor_loop"
      [] t = "monitor" -> "monitor_loop"
      [] t = "plot" -> "plotting_polling_loop"
LoopCondition(t) ==
    CASE t = "status" -> gui.status_monitoring /\ gui.connected
      [] t = "monitor" -> gui.monitoring /\ gui.connected
      [] t = "plot" -> gui.plotting_polling /\ gui.connected /\ gui.actuator

\* The operation has a branch that writes to the port in the mode.
WritesIn(op, mode) ==
    \/ mode = HUMAN_READABLE
    \/ op \in {"get_position", "get_velocity", "get_torque", "get_current_a",
               "get_current_b", "get_current_c", "enable"}

At(t, loc) == pc[t].loc = loc
Place(loc, job, i) == [loc |-> loc, job |-> job, i |-> i]
Ended(t) == IF t = "main" THEN Place("idle", "none", 0) ELSE Place("off", "none", 0)

\* Where thread t goes when the call it is in returns: the next call of the
\* body, or the end of the body.
Advance(t) ==
    IF pc[t].i < Len(Calls(pc[t].job))
    THEN Place("call", pc[t].job, pc[t].i + 1)
    ELSE IF t = "main" THEN Ended(t) ELSE Place("test", pc[t].job, 0)

\* The thread has not been started or has ended.
NotRunning(t) == At(t, "off")

\* thread.join(timeout=1.0) has returned: the thread has ended, or it is
\* blocked in a read, which lasts the second of the transport's timeout
\* after the 0.1 s the call sleeps first.
JoinReturned(t) == NotRunning(t) \/ At(t, "wait")

\* `while self.<flag> and self.connected:`
loop_test(t) ==
    /\ t # "main"
    /\ At(t, "test")
    /\ pc' = [pc EXCEPT ![t] = IF LoopCondition(t)
                               THEN Place("call", Loop(t), 1)
                               ELSE Ended(t)]
    /\ UNCHANGED <<stream, connected, serial_conn, unclosed, command_mode, cache, lastOp, codec, gui>>

\* self.actuator.<op>() up to serial_conn.write(): AttributeError when
\* self.actuator is None (the loop logs it and breaks), an immediate return
\* when the interface is not connected or the mode has no such command.
call_writes(t) ==
    /\ At(t, "call")
    /\ pc' = [pc EXCEPT ![t] =
                IF ~gui.actuator THEN Ended(t)
                ELSE IF connected /\ WritesIn(Calls(pc[t].job)[pc[t].i], command_mode)
                THEN Place("wait", pc[t].job, pc[t].i)
                ELSE Advance(t)]
    /\ UNCHANGED <<stream, connected, serial_conn, unclosed, command_mode, cache, lastOp, codec, gui>>

\* ActuatorPlotter.add_data_point(self, position, velocity, torque,
\* timestamp=None), called with positional arguments: Python binds them or
\* raises TypeError.
add_data_point(args) ==
    IF Len(args) >= 3 /\ Len(args) <= 4 THEN "appended" ELSE "TypeError"

\* The arguments plotting_polling_loop passes to the plotter.
PollingArgs ==
    <<"position", "velocity", "torque", "current_a", "current_b", "current_c",
      "time">>

\* The body of plotting_polling_loop once get_full_state() has returned a
\* state or None: the state goes to the plotter when it is plotting; an
\* exception is logged and breaks the loop.
plotting_polled(state) ==
    LET passed == state /\ gui.plotting
        raised == passed /\ add_data_point(PollingArgs) = "TypeError" IN
    /\ gui' = [gui EXCEPT !.state_read = state, !.delivered = passed /\ ~raised]
    /\ pc' = [pc EXCEPT !["plot"] = IF raised THEN Ended("plot") ELSE Advance("plot")]

\* time.sleep(0.1), serial_conn.readline() or read(1), and the return.  The
\* plotting loop's get_full_state() returns a state or None as the board
\* answers; in the other threads the board is taken to stay silent: the read
\* times out, the call returns None or False and the facade caches nothing.
call_reads(t) ==
    /\ At(t, "wait")
    /\ IF t = "plot"
       THEN \E state \in BOOLEAN : plotting_polled(state)
       ELSE /\ pc' = [pc EXCEPT ![t] = Advance(t)]
            /\ UNCHANGED gui
    /\ UNCHANGED <<stream, connected, serial_conn, unclosed, command_mode, cache, lastOp, codec>>

\* ActuatorGUI.connect: fresh objects, the selected mode, actuator.connect(),
\* start_status_monitoring() and then load_config() on the main thread.
gui_connect ==
    /\ At("main", "idle")
    /\ ~gui.connected
    /\ \A t \in Threads \ {"main"} : NotRunning(t)
    /\ gui.earlier_monitor_loops = 0
    /\ \E mode \in CommandMode, opened \in BOOLEAN :
        /\ command_mode' = mode
        /\ connected' = opened
        /\ serial_conn' = IF opened THEN "open" ELSE "None"
        /\ cache' = [f \in Fields |-> IF f = "enabled" THEN False ELSE None]
        /\ gui' = [gui EXCEPT !.connected = opened, !.actuator = opened,
                              !.status_monitoring = opened,
                              !.plot_start_btn = IF opened THEN TRUE ELSE @]
        /\ pc' = IF opened
                 THEN [pc EXCEPT !["status"] = Place("test", Loop("status"), 0),
                                 !["main"] = Place("call", "load_config", 1)]
                 ELSE pc
    /\ unclosed' = 0
    /\ UNCHANGED <<stream, lastOp, codec>>

\* ActuatorGUI.disconnect, first half: stop_monitoring(),
\* stop_status_monitoring() and stop_plotting_polling() clear the flags and
\* join the threads with a timeout of one second.
gui_disconnect_stops ==
    /\ At("main", "idle")
    /\ gui.connected
    /\ gui' = [gui EXCEPT !.monitoring = FALSE, !.status_monitoring = FALSE,
                          !.plotting_polling = FALSE]
    /\ pc' = [pc EXCEPT !["main"] = Place("join", "disconnect", 0)]
    /\ UNCHANGED <<stream, connected, serial_conn, unclosed, command_mode, cache, lastOp, codec>>

\* ActuatorGUI.disconnect, second half, the joins of the status thread and
\* of the plotting thread having returned or timed out: actuator.disconnect(),
\* self.actuator = None, self.connected = False, the plot buttons disabled.
gui_disconnect_closes ==
    /\ At("main", "join")
    /\ JoinReturned("status") /\ JoinReturned("plot")
    /\ connected' = FALSE
    /\ serial_conn' = IF serial_conn = "open" THEN "closed" ELSE serial_conn
    /\ gui' = [gui EXCEPT !.connected = FALSE, !.actuator = FALSE,
                          !.plot_start_btn = FALSE, !.plot_stop_btn = FALSE]
    /\ pc' = [pc EXCEPT !["main"] = Ended("main")]
    /\ UNCHANGED <<stream, unclosed, command_mode, cache, lastOp, codec>>

\* toggle_monitoring whose start_monitoring() does not look at the plotter.
toggle_monitoring_IgnoresPlotter ==
    /\ At("main", "idle")
    /\ IF ~gui.monitoring
       THEN /\ gui.connected /\ gui.actuator
            /\ NotRunning("monitor") \/ gui.earlier_monitor_loops + 2 <= MaxLoops
            /\ gui' = [gui EXCEPT !.monitoring = TRUE,
                                  !.earlier_monitor_loops =
                                      IF NotRunning("monitor") THEN @ ELSE @ + 1]
            /\ pc' = [pc EXCEPT !["monitor"] = Place("test", Loop("monitor"), 0)]
       ELSE /\ gui' = [gui EXCEPT !.monitoring = FALSE]
            /\ UNCHANGED pc
    /\ UNCHANGED <<stream, connected, serial_conn, unclosed, command_mode, cache, lastOp, codec>>

\* ActuatorGUI.toggle_monitoring: start_monitoring(), which refuses when not
\* connected or when the plotter is plotting and otherwise sets the flag and
\* starts a thread, or stop_monitoring(), which clears the flag and returns.
\* A thread an earlier start_monitoring() started and that is still alive is
\* counted and its position is no longer followed.
toggle_monitoring ==
    /\ At("main", "idle")
    /\ IF ~gui.monitoring
       THEN /\ gui.connected /\ gui.actuator /\ ~gui.plotting
            /\ NotRunning("monitor") \/ gui.earlier_monitor_loops + 2 <= MaxLoops
            /\ gui' = [gui EXCEPT !.monitoring = TRUE,
                                  !.earlier_monitor_loops =
                                      IF NotRunning("monitor") THEN @ ELSE @ + 1]
            /\ pc' = [pc EXCEPT !["monitor"] = Place("test", Loop("monitor"), 0)]
       ELSE /\ gui' = [gui EXCEPT !.monitoring = FALSE]
            /\ UNCHANGED pc
    /\ UNCHANGED <<stream, connected, serial_conn, unclosed, command_mode, cache, lastOp, codec>>

\* ActuatorGUI.monitor_loop in a thread an earlier start_monitoring()
\* started: it ends when it finds `while self.monitoring and self.connected`
\* false, or when self.actuator is None at its next call.
monitor_loop_ends ==
    /\ gui.earlier_monitor_loops > 0
    /\ ~LoopCondition("monitor") \/ ~gui.actuator
    /\ gui' = [gui EXCEPT !.earlier_monitor_loops = @ - 1]
    /\ UNCHANGED <<stream, connected, serial_conn, unclosed, command_mode, cache, lastOp, codec, pc>>

\* The Start Plotting button, when enabled: ActuatorGUI.start_plotting
\* refuses when monitoring or not connected; otherwise
\* plotter.start_plotting() sets the flag and starts a plot_loop thread, the
\* buttons change and start_plotting_polling() starts the polling thread.
start_plotting ==
    /\ At("main", "idle")
    /\ gui.plot_start_btn
    /\ ~gui.monitoring /\ gui.connected /\ gui.actuator
    /\ NotRunning("plot")
    /\ gui.plot_loops < MaxLoops
    /\ gui' = [gui EXCEPT !.plotting = TRUE, !.plot_loops = @ + 1,
                          !.plot_start_btn = FALSE, !.plot_stop_btn = TRUE,
                          !.plotting_polling = TRUE]
    /\ pc' = [pc EXCEPT !["plot"] = Place("test", Loop("plot"), 0)]
    /\ UNCHANGED <<stream, connected, serial_conn, unclosed, command_mode, cache, lastOp, codec>>

\* ActuatorGUI.stop_plotting once stop_plotting_polling() has cleared the
\* flag and its join has returned: plotter.stop_plotting() clears the
\* plotter's flag, and the buttons change.
StopPlotting ==
    /\ JoinReturned("plot")
    /\ gui' = [gui EXCEPT !.plotting_polling = FALSE, !.plotting = FALSE,
                          !.plot_start_btn = TRUE, !.plot_stop_btn = FALSE]
    /\ UNCHANGED <<stream, connected, serial_conn, unclosed, command_mode, cache, lastOp, codec, pc>>

\* The Stop Plotting button, when enabled.
stop_plotting ==
    /\ At("main", "idle")
    /\ gui.plot_stop_btn
    /\ StopPlotting

\* The Clear Data button: ActuatorGUI.clear_plot_data calls stop_plotting()
\* if the plotter is plotting, then clears the plotter's data.
clear_plot_data ==
    /\ At("main", "idle")
    /\ gui.plotting
    /\ StopPlotting

\* ActuatorPlotter.plot_loop: a thread finds `while self.plotting` false
\* and ends.
plot_loop ==
    /\ gui.plot_loops > 0
    /\ ~gui.plotting
    /\ gui' = [gui EXCEPT !.plot_loops = @ - 1]
    /\ UNCHANGED <<stream, connected, serial_conn, unclosed, command_mode, cache, lastOp, codec, pc>>

\* A button of the window whose callback calls the actuator: Load Config,
\* Enable.
button_pressed ==
    /\ At("main", "idle")
    /\ gui.connected /\ gui.actuator
    /\ \E job \in {"load_config", "enable_actuator"} :
        pc' = [pc EXCEPT !["main"] = Place("call", job, 1)]
    /\ UNCHANGED <<stream, connected, serial_conn, unclosed, command_mode, cache, lastOp, codec, gui>>

NextGui ==
    \/ gui_connect
    \/ gui_disconnect_stops
    \/ gui_disconnect_closes
    \/ toggle_monitoring
    \/ start_plotting
    \/ stop_plotting
    \/ clear_plot_data
    \/ plot_loop
    \/ monitor_loop_ends
    \/ button_pressed
    \/ \E t \in Threads : loop_test(t)
    \/ \E t \in Threads : call_writes(t)
    \/ \E t \in Threads : call_reads(t)

SpecGui == Init /\ [][NextGui]_vars

---------------------------------------------------------------------------
(* The byte stream: lines the board sends and the readline() that takes them *)

\* Requests written on one connection.
MaxRequests == 3

\* Unsolicited lines the board pushes on one connection.
MaxPushed == 3

\* The commands sent: one the firmware answers with one line, and
\* recalibrate_sensors, which it answers with several.
StreamOps == {"get_position", "recalibrate_sensors"}

\* The lines the firmware sends in answer to request n.
AnswerTo(n, op) ==
    IF op = "recalibrate_sensors"
    THEN <<[of |-> n, kind |-> "reply"], [of |-> n, kind |-> "progress"]>>
    ELSE <<[of |-> n, kind |-> "reply"]>>

\* A connected interface in human-readable mode; nothing sent yet.
InitStream ==
    /\ connected = TRUE
    /\ serial_conn = "open"
    /\ unclosed = 0
    /\ command_mode = HUMAN_READABLE
    /\ cache = [f \in Fields |-> IF f = "enabled" THEN False ELSE None]
    /\ lastOp = Idle
    /\ codec = NoCodec
    /\ gui = NoWindow
    /\ pc = NotStarted
    /\ stream = NoStream

\* _send_human_command up to the sleep: serial_conn.write() and flush().
\* Nothing is read or discarded from the input buffer before the write.
human_command_written ==
    /\ connected /\ serial_conn # "None"
    /\ stream.waiting = 0
    /\ stream.sent < MaxRequests
    /\ \E op \in StreamOps :
        stream' = [stream EXCEPT
                     !.sent = @ + 1,
                     !.waiting = stream.sent + 1,
                     !.owed = Append(@, [req |-> stream.sent + 1, op |-> op])]
    /\ UNCHANGED <<connected, serial_conn, unclosed, command_mode, cache, lastOp,
                   codec, gui, pc>>

\* _send_human_command from readline() on: the oldest line in the input
\* buffer is the response, whatever it answers; with no line within the
\* timeout the response is ''.
human_command_read ==
    /\ stream.waiting # 0
    /\ stream' = [stream EXCEPT
                    !.waiting = 0,
                    !.rx = IF @ = <<>> THEN @ ELSE Tail(@),
                    !.last = [req |-> stream.waiting,
                              line |-> IF stream.rx = <<>> THEN NoLine
                                       ELSE Head(stream.rx)]]
    /\ UNCHANGED <<connected, serial_conn, unclosed, command_mode, cache, lastOp,
                   codec, gui, pc>>

\* The firmware answers the oldest request it has not answered, in time for
\* the readline() of that request or after its timeout.
board_answers ==
    /\ stream.owed # <<>>
    /\ stream' = [stream EXCEPT
                    !.owed = Tail(@),
                    !.rx = @ \o AnswerTo(Head(stream.owed).req, Head(stream.owed).op)]
    /\ UNCHANGED <<connected, serial_conn, unclosed, command_mode, cache, lastOp,
                   codec, gui, pc>>

\* The firmware, broadcasting, pushes a broadcast_data line, well formed or
\* not.  No code of the client reads the port other than the readline() and
\* read(1) of an exchange, and none hands a line to a sink.
board_pushes ==
    /\ Len(stream.pushed) < MaxPushed
    /\ \E kind \in {"broadcast_data", "malformed"} :
        stream' = [stream EXCEPT
                     !.pushed = Append(@, kind),
                     !.rx = Append(@, [of |-> 0, kind |-> kind])]
    /\ UNCHANGED <<connected, serial_conn, unclosed, command_mode, cache, lastOp,
                   codec, gui, pc>>

NextStream ==
    \/ human_command_written
    \/ human_command_read
    \/ board_answers
    \/ board_pushes

SpecStream == InitStream /\ [][NextStream]_vars

---------------------------------------------------------------------------
(* Vocabulary of the properties *)

\* The operations that report success as a bool; the others return a value
\* or None.
BoolOps ==
    {"set_position", "set_velocity", "set_torque", "enable", "disable", "home",
     "stop", "reset_position", "set_command_mode", "set_velocity_pid",
     "set_angle_pid", "set_current_pid", "save_config", "set_downsample",
     "recalibrate_sensors", "set_pole_pairs"}

\* The value by which an operation reports failure.
FailureValue(op) == IF op \in BoolOps THEN False ELSE None

\* A call of a protocol operation made directly on the USBInterface object.
IfaceOp == lastOp.layer = "USBInterface" /\ lastOp.op \notin {"connect", "disconnect"}

\* An exchange took place and the port raised nothing.
Exchanged == lastOp.writes # <<>> /\ lastOp.io.fault = "none"

\* The operation `op` of USBInterface on the object `self` with the
\* arguments `args`, the port behaving as `io`.
Invoke(op, self, args, io) ==
    CASE op = "get_position" -> get_position(self, io)
      [] op = "get_velocity" -> get_velocity(self, io)
      [] op = "get_torque" -> get_torque(self, io)
      [] op = "set_position" -> set_position(self, args[1], io)
      [] op = "set_velocity" -> set_velocity(self, args[1], io)
      [] op = "set_torque" -> set_torque(self, args[1], io)
      [] op = "enable" -> enable(self, io)
      [] op = "disable" -> disable(self, io)
      [] op = "home" -> home(self, io)
      [] op = "stop" -> stop(self, io)
      [] op = "reset_position" -> reset_position(self, io)
      [] op = "set_command_mode" -> set_command_mode(self, args[1].n, io)
      [] op = "get_velocity_pid" -> get_velocity_pid(self, io)
      [] op = "set_velocity_pid" -> set_velocity_pid(self, args[1], io)
      [] op = "get_angle_pid" -> get_angle_pid(self, io)
      [] op = "set_angle_pid" -> set_angle_pid(self, args[1], io)
      [] op = "get_current_pid" -> get_current_pid(self, io)
      [] op = "set_current_pid" -> set_current_pid(self, args[1], io)
      [] op = "save_config" -> save_config(self, io)
      [] op = "get_downsample" -> get_downsample(self, io)
      [] op = "set_downsample" -> set_downsample(self, args[1], io)
      [] op = "get_temperature" -> get_temperature(self, io)
      [] op = "get_bus_voltage" -> get_bus_voltage(self, io)
      [] op = "get_internal_temperature" -> get_internal_temperature(self, io)
      [] op = "get_current_a" -> get_current_a(self, io)
      [] op = "get_current_b" -> get_current_b(self, io)
      [] op = "get_current_c" -> get_current_c(self, io)
      [] op = "recalibrate_sensors" -> recalibrate_sensors(self, io)
      [] op = "get_pole_pairs" -> get_pole_pairs(self, io)
      [] op = "set_pole_pairs" -> set_pole_pairs(self, args[1], io)
      [] op = "get_full_state" -> get_full_state(self, io)

---------------------------------------------------------------------------
(* The setup dialog: pole pairs, sensor calibration, save *)

\* The values of the pole-pairs field of the dialog.
PolePairsInputs == {0, 7, 14}

\* Python's `not value`.
PyNot(v) == v.k = "None" \/ (v.k \in {"bool", "int", "float"} /\ v.n = 0)

\* A connected window whose setup dialog is open.
InitSetup ==
    /\ connected = TRUE
    /\ serial_conn = "open"
    /\ unclosed = 0
    /\ command_mode \in CommandMode
    /\ cache = [f \in Fields |-> IF f = "enabled" THEN False ELSE None]
    /\ lastOp = Idle
    /\ codec = NoCodec
    /\ gui = [NoWindow EXCEPT !.connected = TRUE, !.actuator = TRUE,
                              !.plot_start_btn = TRUE]
    /\ pc = NotStarted
    /\ stream = NoStream

\* ActuatorGUI.perform_actuator_setup up to its first call on the actuator:
\* it returns at once when the pole-pairs value is below 1 or the user
\* declines the confirmation.
setup_asked ==
    /\ At("main", "idle")
    /\ gui.connected /\ gui.actuator
    /\ \E pole_pairs \in PolePairsInputs, confirmed \in BOOLEAN :
        IF pole_pairs < 1 \/ ~confirmed
        THEN /\ gui' = [gui EXCEPT !.setup = [NoSetup EXCEPT !.outcome = "returned"]]
             /\ UNCHANGED pc
        ELSE /\ gui' = [gui EXCEPT !.setup = [NoSetup EXCEPT !.pole_pairs = pole_pairs,
                                                            !.outcome = "running"]]
             /\ pc' = [pc EXCEPT !["main"] = Place("call", "perform_actuator_setup", 1)]
    /\ UNCHANGED <<stream, connected, serial_conn, unclosed, command_mode, cache, lastOp, codec>>

\* setup_step that goes on to the next call whatever the call returned.
setup_step_IgnoresResult ==
    /\ At("main", "call")
    /\ pc["main"].job = "perform_actuator_setup"
    /\ LET i == pc["main"].i
           op == perform_actuator_setup[i]
           args == IF op = "set_pole_pairs" THEN <<PyInt(gui.setup.pole_pairs)>> ELSE <<>> IN
       \E io \in IOs(Self, op) :
           LET out == Invoke(op, Self, args, io)
               failed == PyNot(out.result) IN
           /\ lastOp' = Called("ACBv2", op, args, io, out)
           /\ gui' = [gui EXCEPT !.setup.called = Append(@, op),
                                 !.setup.reported = Append(@, ~failed),
                                 !.setup.outcome =
                                     IF i = Len(perform_actuator_setup)
                                     THEN "complete" ELSE @]
           /\ pc' = [pc EXCEPT !["main"] =
                        IF i = Len(perform_actuator_setup)
                        THEN Ended("main")
                        ELSE Place("call", "perform_actuator_setup", i + 1)]
    /\ UNCHANGED <<stream, connected, serial_conn, unclosed, command_mode, cache, codec>>

\* One step of the setup: the call on the actuator, which ACBv2 passes to the
\* interface unchanged, and the `if not ...: showerror; return` that follows
\* it; after the third step the "Setup Complete" message.
setup_step ==
    /\ At("main", "call")
    /\ pc["main"].job = "perform_actuator_setup"
    /\ LET i == pc["main"].i
           op == perform_actuator_setup[i]
           args == IF op = "set_pole_pairs" THEN <<PyInt(gui.setup.pole_pairs)>> ELSE <<>> IN
       \E io \in IOs(Self, op) :
           LET out == Invoke(op, Self, args, io)
               failed == PyNot(out.result) IN
           /\ lastOp' = Called("ACBv2", op, args, io, out)
           /\ gui' = [gui EXCEPT !.setup.called = Append(@, op),
                                 !.setup.reported = Append(@, ~failed),
                                 !.setup.outcome =
                                     IF failed THEN "error"
                                     ELSE IF i = Len(perform_actuator_setup)
                                     THEN "complete" ELSE @]
           /\ pc' = [pc EXCEPT !["main"] =
                        IF failed \/ i = Len(perform_actuator_setup)
                        THEN Ended("main")
                        ELSE Place("call", "perform_actuator_setup", i + 1)]
    /\ UNCHANGED <<stream, connected, serial_conn, unclosed, command_mode, cache, codec>>

NextSetup ==
    \/ setup_asked
    \/ setup_step

SpecSetup == InitSetup /\ [][NextSetup]_vars

---------------------------------------------------------------------------
(* A call step by step: the write, the blocking read, the return *)

\* The public protocol operations of USBInterface.
PublicOps ==
    {"get_position", "get_velocity", "get_torque", "set_position",
     "set_velocity", "set_torque", "enable", "disable", "home", "stop",
     "reset_position", "set_command_mode", "get_velocity_pid",
     "set_velocity_pid", "get_angle_pid", "set_angle_pid", "get_current_pid",
     "set_current_pid", "save_config", "get_downsample", "set_downsample",
     "get_temperature", "get_bus_voltage", "get_internal_temperature",
     "get_current_a", "get_current_b", "get_current_c", "recalibrate_sensors",
     "get_pole_pairs", "set_pole_pairs", "get_full_state"}

\* The arguments explored for each operation.
ArgsOf(op) ==
    IF op \in {"set_position", "set_velocity", "set_torque"}
    THEN {<<x>> : x \in FloatArgs}
    ELSE IF op \in {"set_velocity_pid", "set_angle_pid", "set_current_pid"}
    THEN {<<t>> : t \in PidArgs}
    ELSE IF op \in {"set_downsample", "set_pole_pairs"}
    THEN {<<i>> : i \in IntArgs}
    ELSE IF op = "set_command_mode" THEN {<<PyInt(m)>> : m \in CommandMode}
    ELSE {<<>>}

\* The word the operation sends in human-readable mode.
CommandWord(op) == IF op = "set_command_mode" THEN "cmd_mode" ELSE op

\* A public operation is called and runs up to its read.  A call that does
\* not reach readline() or read(1) (not connected, no such command in the
\* mode, the write raised) has returned; otherwise the thread is in the
\* read, and `io` is what the port will have for it, nothing included.
operation_called ==
    /\ At("main", "idle")
    /\ lastOp = Idle
    /\ \E op \in PublicOps :
        \E args \in ArgsOf(op), io \in IOs(Self, CommandWord(op)) :
            LET out == Invoke(op, Self, args, io) IN
            /\ lastOp' = Called("USBInterface", op, args, io, out)
            /\ command_mode' = out.mode
            /\ pc' = [pc EXCEPT !["main"] = IF out.reads = <<>> THEN Ended("main")
                                            ELSE Place("wait", op, 0)]
    /\ UNCHANGED <<stream, unclosed, codec, gui, connected, serial_conn, cache>>

\* read_released on a port opened without a timeout: the read returns only
\* when bytes have arrived.
read_released_NoTimeout ==
    /\ At("main", "wait")
    /\ lastOp.io.fault # "none" \/ lastOp.io.line # <<>> \/ lastOp.io.bytes # <<>>
    /\ pc' = [pc EXCEPT !["main"] = Ended("main")]
    /\ UNCHANGED <<stream, connected, serial_conn, unclosed, command_mode, cache, lastOp, codec, gui>>

\* serial_conn.readline() or read(1) returns, with the bytes that arrived or
\* with none once the timeout the port was opened with has run out, and the
\* operation returns what it makes of them.
read_released ==
    /\ At("main", "wait")
    /\ pc' = [pc EXCEPT !["main"] = Ended("main")]
    /\ UNCHANGED <<stream, connected, serial_conn, unclosed, command_mode, cache, lastOp, codec, gui>>

\* The caller goes on once the call has returned.
call_returned ==
    /\ At("main", "idle")
    /\ caller_continues

NextCalls ==
    \/ connect
    \/ disconnect
    \/ operation_called
    \/ read_released
    \/ call_returned

\* The port honours the timeout it was opened with.
SpecCalls == Init /\ [][NextCalls]_vars /\ WF_vars(read_released)

---------------------------------------------------------------------------
(* C1 *)

\* C1: a call on a USBInterface that is not connected returns the
\* operation's failure value (None or False) and makes no write and no read
\* on the port, in every command mode and for every argument.
C1_NotConnectedFailsWithoutIO ==
    (IfaceOp /\ ~lastOp.self.connected)
        => /\ lastOp.result = FailureValue(lastOp.op)
           /\ lastOp.writes = <<>>
           /\ lastOp.reads = <<>>

---------------------------------------------------------------------------
(* C2 *)

HumanSetOps ==
    {"set_position", "set_velocity", "set_torque", "set_velocity_pid",
     "set_angle_pid", "set_current_pid", "set_downsample", "set_pole_pairs"}

\* The reply line is "<name> " followed by the parseable accepted value(s).
WellFormedEcho(op, line) ==
    /\ StartsWith(line, op)
    /\ IF op \in {"set_velocity_pid", "set_angle_pid", "set_current_pid"}
       THEN Len(line) >= 4 /\ ThreeFloats(line)
       ELSE IF op \in {"set_downsample", "set_pole_pairs"}
       THEN IntParses(AfterFirst(line))
       ELSE FloatParses(AfterFirst(line))

---------------------------------------------------------------------------
(* C3 *)

\* The cached field of each facade set operation that has one.
SetField(op) ==
    CASE op = "set_position" -> "position"
      [] op = "set_velocity" -> "velocity"
      [] op = "set_torque" -> "torque"
      [] op = "set_velocity_pid" -> "velocity_pid"
      [] op = "set_angle_pid" -> "angle_pid"
      [] op = "set_current_pid" -> "current_pid"
      [] op = "set_downsample" -> "downsample"
      [] op = "set_min_angle" -> "min_angle"
      [] op = "set_max_angle" -> "max_angle"

CachedSetOps ==
    {"set_position", "set_velocity", "set_torque", "set_velocity_pid",
     "set_angle_pid", "set_current_pid", "set_downsample", "set_min_angle",
     "set_max_angle"}

\* A step in which ACBv2.<op> is called and returns.
FacadeReturns(ops) ==
    lastOp = Idle /\ lastOp'.layer = "ACBv2" /\ lastOp'.op \in ops

\* C3: after a facade set operation with a cached field returns success the
\* cached field equals the requested value, and after it returns failure
\* the cached field is unchanged.
C3_SetCachesRequested ==
    [][FacadeReturns(CachedSetOps)
        => LET f == SetField(lastOp'.op) IN
           IF lastOp'.result = True
           THEN cache'[f] = lastOp'.args[1]
           ELSE cache'[f] = cache[f]]_vars

---------------------------------------------------------------------------
(* C4 *)

\* The cached field of each facade get operation that has one.
GetField(op) ==
    CASE op = "get_position" -> "position"
      [] op = "get_velocity" -> "velocity"
      [] op = "get_torque" -> "torque"
      [] op = "get_temperature" -> "temperature"
      [] op = "get_bus_voltage" -> "bus_voltage"
      [] op = "get_internal_temperature" -> "internal_temperature"
      [] op = "get_velocity_pid" -> "velocity_pid"
      [] op = "get_angle_pid" -> "angle_pid"
      [] op = "get_current_pid" -> "current_pid"
      [] op = "get_downsample" -> "downsample"

CachedGetOps ==
    {"get_position", "get_velocity", "get_torque", "get_temperature",
     "get_bus_voltage", "get_internal_temperature", "get_velocity_pid",
     "get_angle_pid", "get_current_pid", "get_downsample"}

\* C4: a facade get operation with a cached field returns what the
\* interface returned; when that is a value v the cached field becomes v,
\* and when it is None the cached field keeps its previous value.
C4_GetCachesOnValue ==
    [][FacadeReturns(CachedGetOps)
        => LET f == GetField(lastOp'.op)
               v == Invoke(lastOp'.op, lastOp'.self, lastOp'.args, lastOp'.io).result
           IN  /\ lastOp'.result = v
               /\ IF v # None
                  THEN cache'[f] = v
                  ELSE cache'[f] = cache[f]]_vars

\* A get that failed after an earlier get of the same field succeeded: the
\* call returned None and the field still holds the earlier value.
C4_Witness_FailedGetKeepsValue ==
    /\ lastOp.layer = "ACBv2"
    /\ lastOp.op = "get_position"
    /\ lastOp.self.connected
    /\ lastOp.result = None
    /\ cache["position"] # None

---------------------------------------------------------------------------
(* C5 *)

\* The operations whose code has no branch for HIGH_SPEED_BINARY.
BinaryUnsupportedOps ==
    {"get_velocity_pid", "set_velocity_pid", "get_angle_pid", "set_angle_pid",
     "get_current_pid", "set_current_pid", "save_config", "get_downsample",
     "set_downsample", "get_temperature", "get_bus_voltage",
     "get_internal_temperature", "recalibrate_sensors", "get_pole_pairs",
     "set_pole_pairs", "get_full_state"}

\* C5: in HIGH_SPEED_BINARY mode an operation that has no binary
\* implementation returns failure without writing to the port and without
\* reading from it.
C5_UnsupportedInBinaryNoIO ==
    (IfaceOp /\ lastOp.op \in BinaryUnsupportedOps
        /\ lastOp.self.command_mode = HIGH_SPEED_BINARY)
        => /\ lastOp.result = FailureValue(lastOp.op)
           /\ lastOp.writes = <<>>
           /\ lastOp.reads = <<>>

\* get_velocity_pid called in binary mode on a connected interface.
C5_Witness_PidGetInBinary ==
    /\ IfaceOp
    /\ lastOp.op = "get_velocity_pid"
    /\ lastOp.self.command_mode = HIGH_SPEED_BINARY
    /\ lastOp.self.connected
    /\ lastOp.result = None

---------------------------------------------------------------------------
(* C6 *)

ConnectedHuman ==
    [connected |-> TRUE, serial_conn |-> "open", command_mode |-> HUMAN_READABLE]

\* What the operation of lastOp returns when the interface is not connected.
NotConnectedResult ==
    Invoke(lastOp.op, [lastOp.self EXCEPT !.connected = FALSE], lastOp.args,
           NoReply).result

\* What it returns when the port raises in write() or readline().
TransportFailureResults ==
    {Invoke(lastOp.op, ConnectedHuman, lastOp.args, Io(fault, <<>>, <<>>)).result :
        fault \in {"write", "read"}}

\* What it returns when the bytes read are not UTF-8 (.decode() raises).
UndecodableResult ==
    Invoke(lastOp.op, ConnectedHuman, lastOp.args, Io("decode", <<>>, <<>>)).result

\* What it returns when the line read is not the reply of the command.
MalformedReplyResult ==
    Invoke(lastOp.op, ConnectedHuman, lastOp.args,
           Io("none", <<Word("error")>>, <<>>)).result

\* An operation of BinaryUnsupportedOps returned in a mode other than
\* HUMAN_READABLE.
UnsupportedCall ==
    /\ IfaceOp
    /\ lastOp.op \in BinaryUnsupportedOps
    /\ lastOp.self.command_mode # HUMAN_READABLE

---------------------------------------------------------------------------
(* C7 *)

ScalarGetOps == {"get_position", "get_velocity", "get_torque"}
CurrentGetOps == {"get_current_a", "get_current_b", "get_current_c"}

\* The big-endian 16-bit word of two bytes, and its value as signed Q8.8.
BigEndianWord(b) == b[1] * 256 + b[2]
Signed16(w) == IF w >= 32768 THEN w - 65536 ELSE w
Decode(w) == PyFloat(Signed16(w) * (Unit \div 256))

\* C7: in binary mode a scalar get reads exactly 2 reply bytes and returns
\* signed16(w)/256 for the big-endian word w the board replied; a
\* phase-current get reads 4 reply bytes and returns their big-endian
\* IEEE-754 value.
C7_BinaryGetDecodesReply ==
    (IfaceOp /\ lastOp.self.command_mode = HIGH_SPEED_BINARY /\ Exchanged)
        => /\ (lastOp.op \in ScalarGetOps /\ Len(lastOp.io.bytes) = 2)
                => /\ lastOp.reads = <<Read(2)>>
                   /\ lastOp.result = Decode(BigEndianWord(lastOp.io.bytes))
           /\ (lastOp.op \in CurrentGetOps /\ Len(lastOp.io.bytes) = 4)
                => /\ lastOp.reads = <<Read(4)>>
                   /\ lastOp.result = unpack_f(lastOp.io.bytes)

---------------------------------------------------------------------------
(* C8 *)

---------------------------------------------------------------------------
(* C9 *)

ScalarSetId(op) ==
    CASE op = "set_position" -> SET_POSITION
      [] op = "set_velocity" -> SET_VELOCITY
      [] op = "set_torque" -> SET_TORQUE

\* C9: in binary mode, on a connected interface, set_position(v),
\* set_velocity(v) and set_torque(v) write exactly three bytes for every v:
\* the CommandID byte, then the big-endian 16-bit word float_to_q88(v).
C9_BinarySetWritesThreeBytes ==
    (IfaceOp /\ lastOp.op \in {"set_position", "set_velocity", "set_torque"}
        /\ lastOp.self.command_mode = HIGH_SPEED_BINARY
        /\ lastOp.self.connected)
        => LET w == float_to_q88(lastOp.args[1].n) IN
           lastOp.writes =
               <<BinPacket(<<ScalarSetId(lastOp.op), w \div 256, w % 256>>)>>

---------------------------------------------------------------------------
(* C10 *)

\* C10: no public operation of USBInterface or of ACBv2 lets an exception
\* escape; it returns a typed value or its failure value (None or False).
C10_NoExceptionEscapes ==
    lastOp.layer \in {"USBInterface", "ACBv2"} => lastOp.result.k # "raise"

---------------------------------------------------------------------------
(* C11 *)

Abs(x) == IF x >= 0 THEN x ELSE -x

\* A value was encoded and the word decoded again.
RoundTripDone == codec.src = "value" /\ codec.pc = "float"

\* C11: for every v in [-128.0, 127.99609375] (on the grid, finer than
\* 1/256), decoding the encoding of v gives a value within 1/256 of v.
C11_RoundTripWithinLsb ==
    (RoundTripDone /\ -128 * Unit <= codec.value /\ codec.value <= 32767 * Lsb)
        => Abs(codec.back - codec.value) <= Lsb

\* The largest value of the range: 127.99609375 is clamped to 127.996 and
\* comes back as 127.9921875, exactly 1/256 below.
C11_Witness_TopOfRange ==
    /\ RoundTripDone
    /\ codec.value = 32767 * Lsb
    /\ codec.value - codec.back = Lsb

---------------------------------------------------------------------------
(* C12 *)

Clamp(v) == IF v < ClampLo THEN ClampLo ELSE IF v > ClampHi THEN ClampHi ELSE v

\* t is c * 256 truncated toward zero (c in 1/Unit).
TruncatedScaled(t, c) ==
    IF c >= 0
    THEN t * Unit <= c * 256 /\ c * 256 < (t + 1) * Unit
    ELSE (t - 1) * Unit < c * 256 /\ c * 256 <= t * Unit

\* C12: the encoder returns trunc_toward_zero(clamp(v, -128.0, 127.996) * 256)
\* mod 2^16, a word in 0..65535, so that 200.0 encodes as 127.996 does, -0.5
\* encodes to 0xFF80 and every v < -128 to 0x8000; the decoder maps every
\* word w in 0..65535 to signed16(w)/256, so that 0xFF80 decodes to -0.5.
C12_CodecBitExact ==
    /\ (codec.src = "value" /\ codec.pc \in {"word", "float"})
        => /\ codec.word \in 0..65535
           /\ TruncatedScaled(Signed16(codec.word), Clamp(codec.value))
           /\ codec.value = 200 * Unit => codec.word = float_to_q88(ClampHi)
           /\ codec.value = -(Unit \div 2) => codec.word = 65408
           /\ codec.value < -128 * Unit => codec.word = 32768
    /\ codec.pc = "float"
        => /\ codec.back = Signed16(codec.word) * Lsb
           /\ codec.word = 65408 => codec.back = -(Unit \div 2)

\* -0.5 was encoded to 0xFF80 and decoded back to -0.5.
C12_Witness_MinusHalf ==
    /\ RoundTripDone
    /\ codec.value = -(Unit \div 2)
    /\ codec.word = 65408
    /\ codec.back = codec.value

---------------------------------------------------------------------------
(* C13 *)

\* A step in which USBInterface.<op> is called and returns.
IfaceReturns(ops) ==
    lastOp = Idle /\ lastOp'.layer = "USBInterface" /\ lastOp'.op \in ops

\* The board answered the request of the call in lastOp' with a non-empty
\* reply in the encoding that was active.
BoardConfirmed ==
    /\ lastOp'.writes # <<>>
    /\ lastOp'.io.fault = "none"
    /\ IF lastOp'.self.command_mode = HUMAN_READABLE
       THEN lastOp'.io.line # <<>>
       ELSE lastOp'.io.bytes # <<>>

\* C13: set_command_mode(m) makes command_mode m and returns success only
\* when the board confirmed the switch with a non-empty reply; when the
\* exchange fails (not connected, transport error, read timeout with an
\* empty reply) command_mode keeps its value and the call returns failure.
C13_ModeSwitchNeedsConfirmation ==
    [][IfaceReturns({"set_command_mode"})
        => IF BoardConfirmed
           THEN command_mode' = lastOp'.args[1].n /\ lastOp'.result = True
           ELSE command_mode' = command_mode /\ lastOp'.result = False]_vars

---------------------------------------------------------------------------
(* C14 *)

\* C14: command_mode starts as HUMAN_READABLE and changes only in a
\* set_command_mode exchange with the board; no caller changes it without
\* the board having been told.
C14_ModeChangesOnlyByExchange ==
    /\ command_mode = HUMAN_READABLE
    /\ [][command_mode' # command_mode
            => /\ lastOp'.op = "set_command_mode"
               /\ lastOp'.writes # <<>>]_vars

---------------------------------------------------------------------------
(* C15 *)

Numeric(tok) == tok.k \in {"int", "float"}

\* The line is "full_state" followed by nine numeric fields.
FullStateReply(l) ==
    /\ Len(l) = 10
    /\ l[1] = Word("full_state")
    /\ \A j \in 2..10 : Numeric(l[j])

\* The line has fewer than nine fields, a non-numeric field among the nine,
\* a different leading token, or is empty.
BadFullStateReply(l) ==
    \/ Len(l) < 10
    \/ l[1] # Word("full_state")
    \/ \E j \in 2..10 : ~Numeric(l[j])

\* C15: in human mode get_full_state returns, for a reply "full_state"
\* followed by nine numeric fields, the record of position, velocity,
\* torque, temperature, bus_voltage, internal_temperature, current_a,
\* current_b, current_c with the fields in that order; for a reply with
\* fewer fields, a non-numeric field, a different leading token or nothing
\* it returns failure, never a partial record.
C15_FullStateAllOrNothing ==
    (IfaceOp /\ lastOp.op = "get_full_state"
        /\ lastOp.self.command_mode = HUMAN_READABLE /\ Exchanged)
        => LET l == lastOp.io.line IN
           /\ FullStateReply(l)
                => /\ lastOp.result.k = "dict"
                   /\ DOMAIN lastOp.result.t = DOMAIN FullStateKeys
                   /\ \A j \in DOMAIN FullStateKeys : lastOp.result.t[j] = l[j + 1].n
           /\ BadFullStateReply(l) => lastOp.result = None

\* A well-formed reply was read and a record returned.
C15_Witness_Record ==
    /\ IfaceOp
    /\ lastOp.op = "get_full_state"
    /\ FullStateReply(lastOp.io.line)
    /\ lastOp.result.k = "dict"

---------------------------------------------------------------------------
(* C16 *)

\* A call of one of `ops` in human-readable mode whose exchange took place.
HumanExchange(ops) ==
    /\ IfaceOp
    /\ lastOp.op \in ops
    /\ lastOp.self.command_mode = HUMAN_READABLE
    /\ Exchanged

\* C16: in human-readable mode home, stop and recalibrate_sensors report
\* success exactly when the reply line they read is non-empty; when the
\* read times out and yields an empty line they report failure.
C16_AnyNonEmptyReply ==
    HumanExchange({"home", "stop", "recalibrate_sensors"})
        => (lastOp.result = True <=> lastOp.io.line # <<>>)

---------------------------------------------------------------------------
(* C17 *)

HumanScalarGetOps ==
    {"get_position", "get_velocity", "get_torque", "get_temperature",
     "get_bus_voltage", "get_internal_temperature", "get_current_a",
     "get_current_b", "get_current_c", "get_downsample", "get_pole_pairs"}

IntGetOps == {"get_downsample", "get_pole_pairs"}

\* The literal x is a value the get operation `op` can return.
ValueFor(op, x) == IF op \in IntGetOps THEN x.k = "int" ELSE Numeric(x)
ValueOf(op, x) == IF op \in IntGetOps THEN PyInt(x.n \div Unit) ELSE PyFloat(x.n)

\* The reply is "<name> v"; the reply is "v".
PrefixedReply(op, l) == Len(l) = 2 /\ l[1] = Word(op) /\ ValueFor(op, l[2])
BareReply(op, l) == Len(l) = 1 /\ ValueFor(op, l[1])

\* C17 (as claimed): in human-readable mode every scalar get returns the
\* value v both when the reply is "<name> v" and when it is the bare "v".
C17_GetAcceptsBothForms ==
    HumanExchange(HumanScalarGetOps)
        => LET l == lastOp.io.line IN
           /\ PrefixedReply(lastOp.op, l) => lastOp.result = ValueOf(lastOp.op, l[2])
           /\ BareReply(lastOp.op, l) => lastOp.result = ValueOf(lastOp.op, l[1])

\* C17 (amended): every scalar get returns v when the reply is "<name> v";
\* get_position, get_velocity and get_torque also return v when the reply
\* is the bare "v", and the other scalar gets return failure for it.
C17_BareFormOnlyForMotionGets ==
    HumanExchange(HumanScalarGetOps)
        => LET l == lastOp.io.line IN
           /\ PrefixedReply(lastOp.op, l) => lastOp.result = ValueOf(lastOp.op, l[2])
           /\ BareReply(lastOp.op, l)
                => lastOp.result = IF lastOp.op \in ScalarGetOps
                                   THEN ValueOf(lastOp.op, l[1])
                                   ELSE None

\* get_position read the bare value 42.0 and returned it.
C17_Witness_BarePosition ==
    /\ HumanExchange({"get_position"})
    /\ lastOp.io.line = <<FloatLit(42 * Unit)>>
    /\ lastOp.result = PyFloat(42 * Unit)

---------------------------------------------------------------------------
(* C18 *)

ExactEchoOps == {"enable", "disable", "reset_position", "save_config"}

\* C18: in human-readable mode enable, disable, reset_position and
\* save_config return success if and only if the trimmed reply line is
\* exactly the command's own name; an empty reply, another name, or the
\* name followed by more text is failure.
C18_SuccessIffExactEcho ==
    HumanExchange(ExactEchoOps)
        => /\ lastOp.result \in {True, False}
           /\ lastOp.result = True <=> lastOp.io.line = <<Word(lastOp.op)>>

\* enable read its name followed by more text and returned failure.
C18_Witness_EchoWithExtraText ==
    /\ HumanExchange({"enable"})
    /\ Len(lastOp.io.line) = 2
    /\ lastOp.io.line[1] = Word("enable")
    /\ lastOp.result = False

---------------------------------------------------------------------------
(* C19 *)

\* C19: a public operation of USBInterface makes at most one write on the
\* port and at most one read, the read only after the write; no timeout,
\* decode failure or transport error makes it write the request again.
C19_OneWriteThenOneRead ==
    IfaceOp
        => /\ Len(lastOp.writes) <= 1
           /\ Len(lastOp.reads) <= 1
           /\ lastOp.reads # <<>> => lastOp.writes # <<>>

\* The read timed out with nothing and the request was written once.
C19_Witness_TimeoutNoRetry ==
    /\ IfaceOp
    /\ Exchanged
    /\ lastOp.io.line = <<>> /\ lastOp.io.bytes = <<>>
    /\ Len(lastOp.writes) = 1
    /\ Len(lastOp.reads) = 1

---------------------------------------------------------------------------
(* C20 *)

\* The threads that have written a request and not yet read its reply.
InExchange == {t \in Threads : At(t, "wait")}

\* C20: no two request/response exchanges overlap on the interface: between
\* the write of one exchange and its read, no other thread (main thread,
\* status poller, monitoring loop, plotting loop) writes to or reads from it.
C20_ExchangesNeverOverlap ==
    Cardinality(InExchange) <= 1

---------------------------------------------------------------------------
(* C21 *)

\* C21: the window never has the 2 Hz status poller and the plotting data
\* acquisition active together: status_monitoring and plotting_polling are
\* not both true.
C21_StatusAndPlottingExclusive ==
    ~(gui.status_monitoring /\ gui.plotting_polling)

---------------------------------------------------------------------------
(* C22 *)

\* The serial.Serial objects of the interface that are open.
OpenTransports ==
    unclosed + (IF serial_conn = "open" THEN 1 ELSE 0)

\* C22: an interface has at most one open transport at any time: no sequence
\* of connect() and disconnect() calls, connect() on a connected interface
\* included, leaves an earlier serial connection open, and after disconnect()
\* no open transport remains.
C22_AtMostOneOpenTransport ==
    /\ OpenTransports <= 1
    /\ lastOp.op = "disconnect" => OpenTransports = 0

---------------------------------------------------------------------------
(* C23 *)

\* The plotting loop's get_full_state() returns in this step.
PlottingPollReturns == At("plot", "wait") /\ pc'["plot"] # pc["plot"]

\* The plotting loop's thread ends in this step.
PlottingLoopEnds == pc["plot"].loc # "off" /\ pc'["plot"].loc = "off"

\* C23: while plotting is active, every state the plotting polling loop reads
\* is delivered to the plotter with its seven arguments, and the loop keeps
\* polling until stop_plotting or disconnect is invoked.
C23_PolledStatesReachPlotter ==
    [][/\ PlottingPollReturns /\ gui'.state_read /\ gui.plotting => gui'.delivered
       /\ PlottingLoopEnds =>
            ~gui.plotting_polling \/ ~gui.connected \/ ~gui.actuator]_vars

---------------------------------------------------------------------------
(* C24 *)

\* The unsolicited lines have all been read off the port.
PushedLinesRead == \A i \in 1..Len(stream.rx) : stream.rx[i].of # 0

\* The well-formed broadcast_data lines among the lines pushed.
WellFormedPushed == {i \in 1..Len(stream.pushed) : stream.pushed[i] = "broadcast_data"}

\* C24: one BroadcastFrame reaches the sink for every well-formed
\* broadcast_data line and none for a malformed line, which is dropped
\* without ending the read loop: once the pushed lines have been read, the
\* sink holds as many frames as well-formed lines were pushed (two for a
\* malformed line between two well-formed ones).
C24_FramePerWellFormedLine ==
    PushedLinesRead => Len(stream.sink) = Cardinality(WellFormedPushed)

---------------------------------------------------------------------------
(* C27 *)

\* C27: the line an operation consumes as its reply was produced by the board
\* in response to that operation's own request: a reply that arrives after
\* its request timed out, or an extra line of recalibrate_sensors, is never
\* consumed as the reply of a later operation.
C27_ReplyAnswersOwnRequest ==
    stream.last.line.of # 0 => stream.last.line.of = stream.last.req

---------------------------------------------------------------------------
(* C25 *)

\* The values of the members of the enumeration CommandID.
CommandIDs ==
    {SET_POSITION, SET_VELOCITY, SET_TORQUE, GET_POSITION, GET_VELOCITY,
     GET_TORQUE, ENABLE, DISABLE, HOME, STOP, RESET_POSITION, GET_CURRENT_A,
     GET_CURRENT_B, GET_CURRENT_C, CMD_MODE, BROADCAST}

\* The members of CommandID that the code of a public operation names.
CommandIDOf(op) ==
    CASE op = "set_position" -> {SET_POSITION}
      [] op = "set_velocity" -> {SET_VELOCITY}
      [] op = "set_torque" -> {SET_TORQUE}
      [] op = "get_position" -> {GET_POSITION}
      [] op = "get_velocity" -> {GET_VELOCITY}
      [] op = "get_torque" -> {GET_TORQUE}
      [] op = "enable" -> {ENABLE}
      [] op = "disable" -> {DISABLE}
      [] op = "home" -> {HOME}
      [] op = "stop" -> {STOP}
      [] op = "reset_position" -> {RESET_POSITION}
      [] op = "get_current_a" -> {GET_CURRENT_A}
      [] op = "get_current_b" -> {GET_CURRENT_B}
      [] op = "get_current_c" -> {GET_CURRENT_C}
      [] op = "set_command_mode" -> {CMD_MODE}
      [] OTHER -> {}

\* The CommandID table of the protocol.
CommandIDTable ==
    /\ SET_POSITION = 1 /\ SET_VELOCITY = 2 /\ SET_TORQUE = 3
    /\ GET_POSITION = 4 /\ GET_VELOCITY = 5 /\ GET_TORQUE = 6
    /\ ENABLE = 7 /\ DISABLE = 8 /\ HOME = 9 /\ STOP = 10
    /\ RESET_POSITION = 11 /\ GET_CURRENT_A = 12 /\ GET_CURRENT_B = 13
    /\ GET_CURRENT_C = 14 /\ CMD_MODE = 171 /\ BROADCAST = 172

\* C25: every operation of the protocol client has exactly one CommandID: the
\* values are pairwise distinct and are those of the protocol's table, and
\* each public operation that is called, the ones implemented only in
\* human-readable mode included, has exactly one of them.
C25_OneCommandIDPerOperation ==
    /\ Cardinality(CommandIDs) = 16
    /\ CommandIDTable
    /\ IfaceOp =>
        /\ Cardinality(CommandIDOf(lastOp.op)) = 1
        /\ CommandIDOf(lastOp.op) \subseteq CommandIDs

---------------------------------------------------------------------------
(* C26 *)

\* The exchange of the call that returns in this step got reply bytes.
BoardReplied ==
    /\ lastOp'.writes # <<>>
    /\ lastOp'.io.fault = "none"
    /\ lastOp'.io.line # <<>> \/ lastOp'.io.bytes # <<>>

\* C26: a cached field of ACBv2 changes only in a call whose exchange the
\* board answered with reply bytes; a call whose exchange timed out with no
\* reply, in human-readable or binary mode, changes no cached field.
C26_CacheChangesOnlyOnReply ==
    [][lastOp = Idle /\ lastOp'.layer = "ACBv2" /\ cache' # cache
        => BoardReplied]_vars

---------------------------------------------------------------------------
(* C28 *)

\* The request of set_command_mode(m) in the encoding of the mode `active`:
\* the line "cmd_mode <m>", or the byte 0xAB and m as a big-endian 16-bit
\* number.
ModeRequest(active, m) ==
    IF active = HUMAN_READABLE
    THEN [fmt |-> "text", line |-> <<Word("cmd_mode"), IntLit(m)>>, bytes |-> <<>>]
    ELSE [fmt |-> "bin", line |-> <<>>, bytes |-> <<171, m \div 256, m % 256>>]

\* set_command_mode was called on a connected interface and has returned.
ModeSwitchCalled ==
    IfaceOp /\ lastOp.op = "set_command_mode" /\ lastOp.self.connected

\* C28: set_command_mode(m) encodes its request in the mode that is active
\* before the call, and the request is written before command_mode is
\* assigned: a call that changed command_mode wrote its request, in the old
\* mode's encoding.
C28_ModeRequestInActiveEncoding ==
    ModeSwitchCalled =>
        /\ lastOp.writes = <<ModeRequest(lastOp.self.command_mode, lastOp.args[1].n)>>
        /\ command_mode # lastOp.self.command_mode => lastOp.writes # <<>>

\* A switch from binary to human-readable mode that the board acknowledged.
C28_Witness_BinaryToHuman ==
    /\ ModeSwitchCalled
    /\ lastOp.self.command_mode = HIGH_SPEED_BINARY
    /\ lastOp.args[1].n = HUMAN_READABLE
    /\ command_mode = HUMAN_READABLE
    /\ lastOp.writes = <<[fmt |-> "bin", line |-> <<>>, bytes |-> <<171, 0, 1>>]>>

---------------------------------------------------------------------------
(* C29 *)

\* The get operations of USBInterface.
HumanGetOps ==
    {"get_position", "get_velocity", "get_torque", "get_velocity_pid",
     "get_angle_pid", "get_current_pid", "get_downsample", "get_temperature",
     "get_bus_voltage", "get_internal_temperature", "get_current_a",
     "get_current_b", "get_current_c", "get_pole_pairs", "get_full_state"}

\* The names of the commands of the protocol.
CommandNames == HumanGetOps \cup BoolOps

\* The reply line read by the call in lastOp starts with the name of a
\* command other than the one that was sent.
EchoesAnotherCommand ==
    /\ lastOp.io.line # <<>>
    /\ lastOp.io.line[1].k = "word"
    /\ lastOp.io.line[1].s \in CommandNames \ {lastOp.op}

\* C29: in human-readable mode a get operation returns failure for every
\* reply line that starts with the name of another command; it never returns
\* a value taken from such a line.
C29_GetRejectsOtherCommandsEcho ==
    (/\ IfaceOp /\ lastOp.op \in HumanGetOps
     /\ lastOp.self.command_mode = HUMAN_READABLE
     /\ Exchanged
     /\ EchoesAnotherCommand)
        => lastOp.result = None

\* get_full_state reads nine numbers under the name get_position.
C29_Witness_FullStateUnderOtherName ==
    /\ IfaceOp /\ lastOp.op = "get_full_state"
    /\ lastOp.self.command_mode = HUMAN_READABLE
    /\ Exchanged
    /\ lastOp.io.line = [FullStateLine(9) EXCEPT ![1] = Word("get_position")]
    /\ lastOp.result = None

---------------------------------------------------------------------------
(* C30 *)

\* The cached field that belongs to a facade operation, if it has one.
OwnFields(op) ==
    IF op \in {"enable", "disable"} THEN {"enabled"}
    ELSE {f \in Fields : op \in {"get_" \o f, "set_" \o f}}

\* C30: an ACBv2 operation changes at most its own cached field (get_position
\* only position, set_velocity_pid only velocity_pid, enable and disable only
\* the enabled flag); every other cached field and the interface's
\* command_mode and connected flag are left as they were.
C30_OperationChangesOwnFieldOnly ==
    [][lastOp = Idle /\ lastOp'.layer = "ACBv2"
        => /\ \A f \in Fields \ OwnFields(lastOp'.op) : cache'[f] = cache[f]
           /\ command_mode' = command_mode
           /\ connected' = connected]_vars

\* set_velocity_pid stored its triple while the enabled flag, set by an
\* earlier enable, is still set.
C30_Witness_PidStoredEnabledKept ==
    /\ lastOp.layer = "ACBv2" /\ lastOp.op = "set_velocity_pid"
    /\ lastOp.result = True
    /\ cache["velocity_pid"] = lastOp.args[1]
    /\ cache["enabled"] = True

---------------------------------------------------------------------------
(* C31 *)

\* What the call in lastOp does on the same object, with the same arguments
\* and port behaviour, when the mode is HIGH_SPEED_BINARY.
InBinaryMode ==
    Invoke(lastOp.op, [lastOp.self EXCEPT !.command_mode = HIGH_SPEED_BINARY],
           lastOp.args, lastOp.io)

\* C31: in SIMPLEFOC mode every operation of USBInterface writes the same
\* bytes, makes the same reads and returns the same result as it does in
\* HIGH_SPEED_BINARY mode for the same arguments and board reply.
C31_SimpleFocIsBinary ==
    (IfaceOp /\ lastOp.self.command_mode = SIMPLEFOC)
        => /\ lastOp.writes = InBinaryMode.writes
           /\ lastOp.reads = InBinaryMode.reads
           /\ lastOp.result = InBinaryMode.result

\* enable in SIMPLEFOC mode sends the byte 0x07 and the board acknowledges.
C31_Witness_EnableInSimpleFoc ==
    /\ IfaceOp /\ lastOp.op = "enable"
    /\ lastOp.self.connected /\ lastOp.self.command_mode = SIMPLEFOC
    /\ lastOp.writes = <<[fmt |-> "bin", line |-> <<>>, bytes |-> <<7>>]>>
    /\ lastOp.io.bytes # <<>>
    /\ lastOp.result = True

---------------------------------------------------------------------------
(* C32 *)

\* C32: manual monitoring and plotting are mutually exclusive in the window:
\* in every state reached through start_monitoring, stop_monitoring,
\* start_plotting, stop_plotting, clear_plot_data, connect and disconnect,
\* the monitoring flag and the plotter's plotting flag are not both true, and
\* plotting_polling being true implies the plotter's plotting flag is true.
C32_MonitoringAndPlottingExclusive ==
    /\ ~(gui.monitoring /\ gui.plotting)
    /\ gui.plotting_polling => gui.plotting

\* Start Monitoring is refused: the window was disconnected while plotting,
\* connected again, and the plotter's flag is still set.
C32_Witness_MonitoringRefusedAfterReconnect ==
    /\ At("main", "idle")
    /\ gui.connected /\ gui.actuator
    /\ gui.plotting /\ ~gui.plotting_polling
    /\ ~gui.monitoring
    /\ ~ENABLED toggle_monitoring

---------------------------------------------------------------------------
(* C33 *)

\* ActuatorGUI.disconnect returns in this step.
DisconnectReturns == At("main", "join") /\ pc'["main"].loc = "idle"

\* C33: when the window's disconnect() returns no background activity is left
\* active: monitoring, status_monitoring, plotting_polling and the plotter's
\* plotting flag are all false and no plot_loop thread stays in its loop, so
\* that a later Start Plotting starts exactly one loop.
C33_DisconnectStopsEverything ==
    [][DisconnectReturns =>
        /\ ~gui'.monitoring /\ ~gui'.status_monitoring
        /\ ~gui'.plotting_polling /\ ~gui'.plotting]_vars

---------------------------------------------------------------------------
(* C34 *)

\* The polling threads that are in their loop, and those that have written a
\* request and wait for its reply.
InLoop == {t \in Threads \ {"main"} : ~NotRunning(t)}
InRequest == {t \in Threads \ {"main"} : At(t, "wait")}

\* A polling thread calls a method on self.actuator in this step and finds
\* None.
DereferencesNone ==
    \E t \in Threads \ {"main"} :
        At(t, "call") /\ ~gui.actuator /\ pc'[t] # pc[t]

\* C34: when the window's disconnect() closes the transport and clears the
\* actuator reference, every poller has left its loop, none is inside or
\* about to start an exchange, and no poller dereferences the actuator after
\* it was set to None.
C34_PollersGoneBeforeClose ==
    [][/\ DisconnectReturns =>
            InLoop = {} /\ InRequest = {} /\ gui.earlier_monitor_loops = 0
       /\ ~DereferencesNone]_vars

---------------------------------------------------------------------------
(* C35 *)

\* The threads alive in monitor_loop.
MonitorLoops ==
    gui.earlier_monitor_loops + (IF NotRunning("monitor") THEN 0 ELSE 1)

\* C35: at most one instance of each background loop is alive at any time:
\* whatever the sequence of starts and stops of monitoring and of plotting,
\* a start issued right after a stop included, there are never two
\* monitor_loop threads or two plot_loop threads.
C35_OneInstancePerLoop ==
    MonitorLoops <= 1 /\ gui.plot_loops <= 1

---------------------------------------------------------------------------
(* C36 *)

\* The calls of the running or last setup, in order, each with what it
\* reported.
SetupCalls == gui.setup.called
SetupReported == gui.setup.reported

\* C36: the setup sequence is strictly ordered and aborts on the first
\* failure: recalibrate_sensors is called only after set_pole_pairs reported
\* success, save_config only after recalibrate_sensors reported success, and
\* "Setup Complete" is reached only when all three reported success.
C36_SetupOrderedAbortsOnFailure ==
    /\ Len(SetupCalls) <= 3
    /\ SetupCalls = SubSeq(<<"set_pole_pairs", "recalibrate_sensors", "save_config">>,
                           1, Len(SetupCalls))
    /\ \A k \in 2..Len(SetupCalls) : SetupReported[k - 1]
    /\ gui.setup.outcome = "complete" =>
            Len(SetupCalls) = 3 /\ \A k \in 1..3 : SetupReported[k]
    /\ gui.setup.outcome = "error" =>
            SetupCalls # <<>> /\ ~SetupReported[Len(SetupCalls)] /\ At("main", "idle")

\* The setup stops at the sensor calibration: the board echoed set_pole_pairs
\* and then stayed silent, and save_config is not called.
C36_Witness_AbortAtCalibration ==
    /\ gui.setup.outcome = "error"
    /\ SetupCalls = <<"set_pole_pairs", "recalibrate_sensors">>
    /\ SetupReported = <<TRUE, FALSE>>
    /\ lastOp.op = "recalibrate_sensors" /\ lastOp.writes # <<>> /\ lastOp.result = False

---------------------------------------------------------------------------
(* C37 *)

\* The operation called is blocked in its read; it has returned.
InRead == At("main", "wait")
Returned == At("main", "idle")

\* C37: every public operation of USBInterface eventually returns, whether or
\* not the board ever replies: a read that receives no bytes is released by
\* the read timeout and the operation then returns.
C37_EveryOperationReturns == InRead ~> Returned

\* An operation has written its request to a board that stays silent and is
\* in its read.
C37_Witness_ReadOnSilentBoard ==
    /\ InRead
    /\ lastOp.writes # <<>> /\ lastOp.reads # <<>>
    /\ lastOp.io = NoReply

====
